---- MODULE Spec2Model ----
(***************************************************************************)
(* Model of the function-generation step of the data-flow node frontend    *)
(* (function_generation.cpp) and of the tuple-call calling convention      *)
(* (FN_tuple_call.hpp).                                                    *)
(*                                                                         *)
(* Spec      : one run of generate_function on one node tree, followed by  *)
(*             the caller dropping the returned Function.                  *)
(* SpecStack : the call__setup_stack wrappers acting on an execution       *)
(*             context's frame stack, with nested calls.                   *)
(* SpecNested: the same wrappers with implementations that use the frame  *)
(*             stack through the wrappers only, nested more deeply.        *)
(* SpecTuple : one call of a TupleCallBody and what it does to the tuples. *)
(* SpecLazyState : the member functions of LazyState called in any order.  *)
(* SpecLazy  : one lazy call: its caller, the wrappers, the implementation.*)
(* SpecAnyTree : generate_function on trees whose interface nodes may have *)
(*             no socket.                                                  *)
(* SpecLazyStateLate : the same member functions on a LazyState that may   *)
(*             have lived through 2^32 - 1 entries.                        *)
(*                                                                         *)
(* And of the node link menu and the node view of the node editor:         *)
(* SpecRemoveLinked : one call of ui_node_remove_linked on any small tree. *)
(* SpecNodeView : one call of uiTemplateNodeView on any small tree.        *)
(* SpecNodeLink : one call of ui_node_link by a button of the menu.        *)
(***************************************************************************)
EXTENDS Integers, Sequences, FiniteSets, TLC

VARIABLES
  \* ---- generate_function -------------------------------------------
  btree,          \* the node tree handed to generate_function
  pc,             \* position inside generate_function
  vtree,          \* the VirtualNodeTree object: "none" | "alive" | "destroyed"
  vtree_owner,    \* who owns it: "none" | "local" | "fn"
  frozen,         \* freeze_and_index has run on the virtual tree
  opt_graph,      \* result of generate_graph: "unset" | "empty" | "value"
  data_graph,     \* the VTreeDataGraph: "none" | "alive" | "destroyed"
  dgraph_owner,   \* who owns it: "none" | "optional" | "local" | "fn"
  graph,          \* the data-flow graph built by generate_graph
  input_sockets,  \* VectorSet<DataSocket> input_sockets
  output_sockets, \* VectorSet<DataSocket> output_sockets
  fgraph,         \* the FunctionGraph local, or NoFGraph
  fn,             \* the Function object, or NoFn
  fn_state,       \* "none" | "alive" | "destroyed"
  result,         \* what generate_function returned: "none" | "empty" | "fn"
  calls,          \* history: the calls generate_function has made, in order
  \* ---- both ------------------------------------------------------------
  fault,          \* undefined behaviour that has occurred, NoFault when none has
  \* ---- call__setup_stack ---------------------------------------------
  estack,         \* ctx.stack(): the execution context's frame stack
  cstack,         \* the C++ call stack of active wrappers and implementations
  log,            \* history: the outermost wrapper invocation, once it has returned
  \* ---- tuples and LazyState ------------------------------------------
  fn_in,          \* Tuple &fn_in: for each element, whether it is initialized
  fn_out,         \* Tuple &fn_out: for each element, whether it is initialized
  fn_out_entry,   \* history: fn_out as the caller passed it
  state,          \* the LazyState object
  lpc,            \* position of the code that drives a lazy call
  always_required, \* what always_required() of the lazy body returns
  ctor_user_data, \* history: the pointer the LazyState constructor was given
  last_op,        \* history: the last member function called on the LazyState
  done_signals,   \* history: how often done() has been called
  entered_after_done, \* history: an entry was started after done() was called
  start_calls,    \* history: how often start_next_entry() has been called
  \* ---- node link menu and node view ---------------------------------
  ntree,          \* the bNodeTree: its nodes in list order, their sockets and links
  nflag,          \* node->flag & NODE_TEST of every node
  ustack,         \* the C call stack of the node-tree functions
  uarg,           \* the arguments of the outermost call
  uhist           \* history of the outermost call

genVars == <<btree, pc, vtree, vtree_owner, frozen, opt_graph, data_graph,
             dgraph_owner, graph, input_sockets, output_sockets, fgraph, fn,
             fn_state, result, calls>>
stkVars == <<estack, cstack, log>>
tupVars == <<fn_in, fn_out, fn_out_entry>>
lazyVars == <<state, lpc, always_required, ctor_user_data, last_op,
              done_signals, entered_after_done, start_calls>>
callVars == <<tupVars, lazyVars>>
uiVars == <<ntree, nflag, ustack, uarg, uhist>>
vars == <<genVars, fault, stkVars, callVars, uiVars>>

----------------------------------------------------------------------------
(* Bounds of the model *)

MaxSockets == 3   \* sockets per interface node, placeholder included
MaxNodes == 2     \* nodes of one special kind in a tree
MaxPad == 1       \* data sockets of the graph that precede the interface ones

Names == {"NTfoo", "NTbar"}      \* btree->id.name

\* The C++ type uint has 32 bits; a uint is kept as two 16-bit limbs
\* (value = hi * 2^16 + lo) because 2^32 does not fit TLC's integers.
LIMB == 65536

----------------------------------------------------------------------------
(* Values *)

NullNode == [kind |-> "null", k |-> 0]
NoGraph == [n_in |-> 0, n_out |-> 0, pad |-> 0]
NoFGraph == [graph |-> NoGraph, inputs |-> <<>>, outputs |-> <<>>, built |-> FALSE]
NoFn == [name |-> "", n_inputs |-> 0, n_outputs |-> 0, bodies |-> <<>>,
         resources |-> <<>>]

DataSocket(is_output, id) == [is_output |-> is_output, id |-> id]

\* conversion of a small natural number to uint
Uint(n) == [hi |-> (n \div LIMB) % LIMB, lo |-> n % LIMB]

\* uint subtraction, modulo 2^32
UintSub(a, b) ==
  LET borrow == IF a.lo < b.lo THEN 1 ELSE 0
  IN [hi |-> (a.hi - b.hi - borrow + 2 * LIMB) % LIMB,
      lo |-> (a.lo - b.lo + LIMB) % LIMB]

\* i++ on a uint, modulo 2^32
UintInc(a) ==
  IF a.lo + 1 < LIMB THEN [a EXCEPT !.lo = a.lo + 1]
  ELSE [hi |-> (a.hi + 1) % LIMB, lo |-> 0]

\* a < b on uints
UintLess(a, b) == a.hi < b.hi \/ (a.hi = b.hi /\ a.lo < b.lo)

\* an interface node always carries its trailing placeholder socket
SocketCounts == 1..MaxSockets

RECURSIVE SeqsUpTo(_, _)
SeqsUpTo(S, n) ==
  IF n = 0 THEN {<<>>}
  ELSE LET shorter == SeqsUpTo(S, n - 1)
       IN shorter \cup {Append(s, x) : s \in {t \in shorter : Len(t) = n - 1}, x \in S}

\* A tree, as find_interface_sockets sees it: its name and, per special
\* idname, the socket counts of the nodes of that kind in tree order.
Trees == [name : Names,
          in_nodes : SeqsUpTo(SocketCounts, MaxNodes),
          out_nodes : SeqsUpTo(SocketCounts, MaxNodes)]

----------------------------------------------------------------------------
(* VirtualNodeTree *)

\* vtree.nodes_with_idname(idname): the nodes of that kind, in tree order
nodes_with_idname(tree, idname) ==
  IF idname = "fn_FunctionInputNode"
  THEN [k \in 1..Len(tree.in_nodes) |-> [kind |-> "in", k |-> k]]
  ELSE IF idname = "fn_FunctionOutputNode"
  THEN [k \in 1..Len(tree.out_nodes) |-> [kind |-> "out", k |-> k]]
  ELSE <<>>

\* ArrayRef::get(index, fallback), index counted from 0
Get(seq, index, fallback) ==
  IF index < Len(seq) THEN seq[index + 1] ELSE fallback

\* input_node->outputs().size() / output_node->inputs().size()
SocketCount(tree, node) ==
  IF node.kind = "in" THEN tree.in_nodes[node.k] ELSE tree.out_nodes[node.k]

----------------------------------------------------------------------------
(* VTreeDataGraph *)

RECURSIVE DataSocketsBefore(_, _)
\* number of data sockets of the nodes counts[1..k-1]: every socket of a node
\* but its trailing placeholder has a data socket
DataSocketsBefore(counts, k) ==
  IF k <= 1 THEN 0
  ELSE DataSocketsBefore(counts, k - 1)
       + (IF counts[k - 1] > 0 THEN counts[k - 1] - 1 ELSE 0)

\* whether the virtual socket i (from 0) of node has a data socket
uses_socket(tree, node, i) == i + 1 < SocketCount(tree, node)

\* data_graph.lookup_socket(vsocket), vsocket being socket i (from 0) of node
lookup_socket(tree, g, node, i) ==
  IF node.kind = "in"
  THEN DataSocket(TRUE, g.pad + DataSocketsBefore(tree.in_nodes, node.k) + i)
  ELSE DataSocket(FALSE, g.pad + DataSocketsBefore(tree.out_nodes, node.k) + i)

\* the graph generate_graph builds for a tree, pad sockets preceding those of
\* the interface nodes
BuiltGraph(tree, pad) ==
  [n_out |-> pad + DataSocketsBefore(tree.in_nodes, Len(tree.in_nodes) + 1),
   n_in |-> pad + DataSocketsBefore(tree.out_nodes, Len(tree.out_nodes) + 1),
   pad |-> pad]

\* the socket is one of the graph's
InGraph(g, s) ==
  /\ s.id >= 0
  /\ s.id < (IF s.is_output THEN g.n_out ELSE g.n_in)

----------------------------------------------------------------------------
(* find_interface_sockets *)

NoFault == [kind |-> "none", outcome |-> "none"]

\* The builds of the program. A debug build stops at a failing BLI_assert; a
\* release build compiles the assertion out and goes on with what it reads.
Builds == {"debug", "release"}

\* what lookup_socket hands back in a release build for a virtual socket
\* that has no data socket
NoneSocket == DataSocket(FALSE, -1)

EmptyVectorSet == [elems |-> <<>>, fault |-> NoFault]

Elems(seq) == {seq[j] : j \in 1..Len(seq)}

\* undefined behaviour of the given kind in the given build; a release build
\* goes on when the operation can still be carried out
Fault(kind, build) ==
  [kind |-> kind,
   outcome |-> IF build = "debug" THEN "assertion_abort"
               ELSE IF kind = "index_out_of_bounds" THEN "memory_fault"
               ELSE "continued"]

\* the fault ends the run
Fatal(f) == f.outcome \in {"assertion_abort", "memory_fault"}

\* VectorSet::add_new(value): the value must not be in the set yet
add_new(set, value, build) ==
  IF value \in Elems(set.elems)
  THEN IF build = "debug"
       THEN [set EXCEPT !.fault = Fault("add_new_duplicate", build)]
       ELSE [elems |-> Append(set.elems, value),
             fault |-> Fault("add_new_duplicate", build)]
  ELSE [set EXCEPT !.elems = Append(set.elems, value)]

\* mutant: the loop body reads the node's first socket in every round
LookupAndAddFirstSocket(tree, g, node, i, set, build) ==
  IF uses_socket(tree, node, 0)
  THEN add_new(set, lookup_socket(tree, g, node, 0), build)
  ELSE IF build = "debug"
  THEN [set EXCEPT !.fault = Fault("lookup_failed", build)]
  ELSE [add_new(set, NoneSocket, build) EXCEPT !.fault = Fault("lookup_failed", build)]

\* mutant: the loop body reads socket i + 1 instead of socket i
LookupAndAddNextSocket(tree, g, node, i, set, build) ==
  IF uses_socket(tree, node, i + 1)
  THEN add_new(set, lookup_socket(tree, g, node, i + 1), build)
  ELSE IF build = "debug"
  THEN [set EXCEPT !.fault = Fault("lookup_failed", build)]
  ELSE [add_new(set, NoneSocket, build) EXCEPT !.fault = Fault("lookup_failed", build)]

\* data_graph.lookup_socket(vsocket) as the loop uses it: the socket must
\* have a data socket
LookupAndAdd(tree, g, node, i, set, build) ==
  IF uses_socket(tree, node, i)
  THEN add_new(set, lookup_socket(tree, g, node, i), build)
  ELSE IF build = "debug"
  THEN [set EXCEPT !.fault = Fault("lookup_failed", build)]
  ELSE [add_new(set, NoneSocket, build) EXCEPT !.fault = Fault("lookup_failed", build)]

\* mutant: the loop runs over every socket, the placeholder included
LoopBoundWholeNode(size) == Uint(size)

\* the loop bound  node->outputs().size() - 1  (uint arithmetic)
LoopBound(size) == UintSub(Uint(size), Uint(1))

RECURSIVE CollectSockets(_, _, _, _, _, _)
\* for (uint i = 0; i < size - 1; i++) r_set.add_new(lookup_socket(socket(i)))
CollectSockets(tree, g, node, i, set, build) ==
  IF Fatal(set.fault) \/ ~UintLess(i, LoopBound(SocketCount(tree, node)))
  THEN set
  ELSE IF ~UintLess(i, Uint(SocketCount(tree, node)))
  THEN [set EXCEPT !.fault = Fault("index_out_of_bounds", build)]
  ELSE CollectSockets(tree, g, node, UintInc(i),
                      LookupAndAdd(tree, g, node, i.lo, set, build), build)

\* mutant: the last node of the kind is used
InterfaceNodeLast(tree, idname) ==
  Get(nodes_with_idname(tree, idname),
      IF nodes_with_idname(tree, idname) = <<>> THEN 0
      ELSE Len(nodes_with_idname(tree, idname)) - 1,
      NullNode)

\* the node find_interface_sockets uses for a special kind
InterfaceNode(tree, idname) == Get(nodes_with_idname(tree, idname), 0, NullNode)

\* the input half (lines 20-25)
FindInputs(tree, g, build) ==
  LET input_node == InterfaceNode(tree, "fn_FunctionInputNode")
  IN IF input_node # NullNode
     THEN CollectSockets(tree, g, input_node, Uint(0), EmptyVectorSet, build)
     ELSE EmptyVectorSet

\* the output half (lines 27-32)
FindOutputs(tree, g, build) ==
  LET output_node == InterfaceNode(tree, "fn_FunctionOutputNode")
  IN IF output_node # NullNode
     THEN CollectSockets(tree, g, output_node, Uint(0), EmptyVectorSet, build)
     ELSE EmptyVectorSet

\* mutant: a missing input node makes the function return at once
find_interface_sockets_early_return(tree, g, build) ==
  LET ins == FindInputs(tree, g, build)
      outs == IF Fatal(ins.fault)
                 \/ InterfaceNode(tree, "fn_FunctionInputNode") = NullNode
              THEN EmptyVectorSet
              ELSE FindOutputs(tree, g, build)
  IN [inputs |-> ins.elems,
      outputs |-> outs.elems,
      fault |-> IF ins.fault # NoFault THEN ins.fault ELSE outs.fault]

find_interface_sockets(tree, g, build) ==
  LET ins == FindInputs(tree, g, build)
      outs == IF Fatal(ins.fault) THEN EmptyVectorSet ELSE FindOutputs(tree, g, build)
  IN [inputs |-> ins.elems,
      outputs |-> outs.elems,
      fault |-> IF ins.fault # NoFault THEN ins.fault ELSE outs.fault]

----------------------------------------------------------------------------
(* generate_function *)

\* generate_function has been called and nothing of it has run yet
GenAtEntry ==
  /\ pc = "L37"
  /\ vtree = "none"
  /\ vtree_owner = "none"
  /\ frozen = FALSE
  /\ opt_graph = "unset"
  /\ data_graph = "none"
  /\ dgraph_owner = "none"
  /\ graph = NoGraph
  /\ input_sockets = <<>>
  /\ output_sockets = <<>>
  /\ fgraph = NoFGraph
  /\ fn = NoFn
  /\ fn_state = "none"
  /\ result = "none"
  /\ calls = <<>>

InitGen ==
  /\ btree \in Trees
  /\ GenAtEntry
  /\ fault = NoFault

\* lines 37-39: make the virtual tree, fill it, freeze it
BuildVTree ==
  /\ pc = "L37"
  /\ vtree' = "alive"
  /\ vtree_owner' = "local"
  /\ frozen' = TRUE
  /\ calls' = calls \o <<"add_all_of_tree", "freeze_and_index">>
  /\ pc' = "L41"
  /\ UNCHANGED <<btree, opt_graph, data_graph, dgraph_owner, graph, input_sockets,
                 output_sockets, fgraph, fn, fn_state, result, fault>>
  /\ UNCHANGED <<stkVars, callVars, uiVars>>

\* line 41: generate_graph(*vtree), which may fail
GenerateGraph ==
  /\ pc = "L41"
  /\ \E ok \in BOOLEAN, pad \in 0..MaxPad :
       IF ok
       THEN /\ opt_graph' = "value"
            /\ data_graph' = "alive"
            /\ dgraph_owner' = "optional"
            /\ graph' = BuiltGraph(btree, pad)
       ELSE /\ opt_graph' = "empty"
            /\ UNCHANGED <<data_graph, dgraph_owner, graph>>
  /\ calls' = Append(calls, "generate_graph")
  /\ pc' = "L42"
  /\ UNCHANGED <<btree, vtree, vtree_owner, frozen, input_sockets, output_sockets,
                 fgraph, fn, fn_state, result, fault>>
  /\ UNCHANGED <<stkVars, callVars, uiVars>>

\* mutant: the virtual tree is held by a raw pointer and leaks
VTreeLeakedAtScopeExit == vtree

\* the objects the locals of generate_function still own die at its return
VTreeAtScopeExit == IF vtree_owner = "local" THEN "destroyed" ELSE vtree
DataGraphAtScopeExit ==
  IF dgraph_owner \in {"optional", "local"} THEN "destroyed" ELSE data_graph

\* mutant: the test of the optional is left out
GraphMissingIgnored == FALSE

\* line 42: the test of the optional
GraphMissing == opt_graph # "value"

\* lines 42-44: no graph, return {}
ReturnEmpty ==
  /\ pc = "L42"
  /\ GraphMissing
  /\ result' = "empty"
  /\ vtree' = VTreeAtScopeExit
  /\ data_graph' = DataGraphAtScopeExit
  /\ pc' = "returned"
  /\ UNCHANGED <<btree, vtree_owner, frozen, opt_graph, dgraph_owner, graph,
                 input_sockets, output_sockets, fgraph, fn, fn_state, fault, calls>>
  /\ UNCHANGED <<stkVars, callVars, uiVars>>

\* line 46: data_graph = optional_data_graph.extract()
ExtractGraph ==
  /\ pc = "L42"
  /\ ~GraphMissing
  /\ dgraph_owner' = "local"
  /\ pc' = "L48"
  /\ UNCHANGED <<btree, vtree, vtree_owner, frozen, opt_graph, data_graph, graph,
                 input_sockets, output_sockets, fgraph, fn, fn_state, result, fault,
                 calls>>
  /\ UNCHANGED <<stkVars, callVars, uiVars>>

\* lines 48-50
FindInterfaceSockets ==
  /\ pc = "L48"
  /\ \E build \in Builds :
       LET r == find_interface_sockets(btree, graph, build)
       IN /\ input_sockets' = r.inputs
          /\ output_sockets' = r.outputs
          /\ fault' = r.fault
          /\ pc' = IF Fatal(r.fault) THEN "fault" ELSE "L52"
  /\ calls' = Append(calls, "find_interface_sockets")
  /\ UNCHANGED <<btree, vtree, vtree_owner, frozen, opt_graph, data_graph,
                 dgraph_owner, graph, fgraph, fn, fn_state, result>>
  /\ UNCHANGED <<stkVars, callVars, uiVars>>

\* mutant: the two socket sets are passed in the wrong order
FunctionGraphSwapped(g, inputs, outputs) ==
  [graph |-> g, inputs |-> outputs, outputs |-> inputs, built |-> TRUE]

\* line 52: FunctionGraph fgraph(data_graph->graph(), input_sockets, output_sockets)
FunctionGraph(g, inputs, outputs) ==
  [graph |-> g, inputs |-> inputs, outputs |-> outputs, built |-> TRUE]

MakeFunctionGraph ==
  /\ pc = "L52"
  /\ fgraph' = FunctionGraph(graph, input_sockets, output_sockets)
  /\ calls' = Append(calls, "FunctionGraph")
  /\ pc' = "L56"
  /\ UNCHANGED <<btree, vtree, vtree_owner, frozen, opt_graph, data_graph,
                 dgraph_owner, graph, input_sockets, output_sockets, fn, fn_state,
                 result, fault>>
  /\ UNCHANGED <<stkVars, callVars, uiVars>>

\* mutant: every Function gets the same fixed name
FunctionNameFixed(tree) == "Generated Function"

\* line 56: the name given to the Function
FunctionName(tree) == tree.name

\* fgraph.new_function(name): a Function with one input per input socket and
\* one output per output socket of the function graph, and no body yet
new_function(fg, name) ==
  [name |-> name,
   n_inputs |-> Len(fg.inputs),
   n_outputs |-> Len(fg.outputs),
   bodies |-> <<>>,
   resources |-> <<>>]

NewFunction ==
  /\ pc = "L56"
  /\ fn' = new_function(fgraph, FunctionName(btree))
  /\ fn_state' = "alive"
  /\ calls' = Append(calls, "new_function")
  /\ pc' = "L57"
  /\ UNCHANGED <<btree, vtree, vtree_owner, frozen, opt_graph, data_graph,
                 dgraph_owner, graph, input_sockets, output_sockets, fgraph, result,
                 fault>>
  /\ UNCHANGED <<stkVars, callVars, uiVars>>

\* the body a pass attaches to the Function
BodyOf(pass) ==
  CASE pass = "fgraph_add_DependenciesBody" -> "DependenciesBody"
    [] pass = "fgraph_add_LLVMBuildIRBody" -> "LLVMBuildIRBody"
    [] pass = "fgraph_add_TupleCallBody" -> "TupleCallBody"
    [] pass = "derive_TupleCallBody_from_LLVMBuildIRBody" -> "TupleCallBody"
    [] OTHER -> "none"

\* mutant: the disabled line 61 is active instead of line 60
PassDerivedFromLLVM == "derive_TupleCallBody_from_LLVMBuildIRBody"

\* the passes generate_function runs at lines 57, 58 and 60
PassAtL57 == "fgraph_add_DependenciesBody"
PassAtL58 == "fgraph_add_LLVMBuildIRBody"
PassAtL60 == "fgraph_add_TupleCallBody"

\* a body pass run on *fn
RunPass(pass) ==
  /\ fn' = [fn EXCEPT !.bodies = Append(@, [kind |-> BodyOf(pass), by |-> pass])]
  /\ calls' = Append(calls, pass)
  /\ UNCHANGED <<btree, vtree, vtree_owner, frozen, opt_graph, data_graph,
                 dgraph_owner, graph, input_sockets, output_sockets, fgraph,
                 fn_state, result, fault>>
  /\ UNCHANGED <<stkVars, callVars, uiVars>>

\* line 57
AddDependenciesBody ==
  /\ pc = "L57"
  /\ RunPass(PassAtL57)
  /\ pc' = "L58"

\* line 58
AddLLVMBuildIRBody ==
  /\ pc = "L58"
  /\ RunPass(PassAtL58)
  /\ pc' = "L60"

\* lines 60-61
AddTupleCallBody ==
  /\ pc = "L60"
  /\ RunPass(PassAtL60)
  /\ pc' = "L63"

\* Function::add_resource(std::move(ptr), name)
add_resource(f, name) == [f EXCEPT !.resources = Append(@, name)]

\* mutant: line 63 is missing, the virtual tree stays with the local
AddResourceVTreeSkipped ==
  /\ pc = "L63"
  /\ pc' = "L64"
  /\ UNCHANGED <<btree, vtree, vtree_owner, frozen, opt_graph, data_graph,
                 dgraph_owner, graph, input_sockets, output_sockets, fgraph, fn,
                 fn_state, result, fault, calls>>
  /\ UNCHANGED <<stkVars, callVars, uiVars>>

\* line 63: fn->add_resource(std::move(vtree), "Virtual Node Tree")
AddResourceVTree ==
  /\ pc = "L63"
  /\ fn' = add_resource(fn, "Virtual Node Tree")
  /\ vtree_owner' = "fn"
  /\ calls' = Append(calls, "add_resource")
  /\ pc' = "L64"
  /\ UNCHANGED <<btree, vtree, frozen, opt_graph, data_graph, dgraph_owner, graph,
                 input_sockets, output_sockets, fgraph, fn_state, result, fault>>
  /\ UNCHANGED <<stkVars, callVars, uiVars>>

\* line 64: fn->add_resource(std::move(data_graph), "VTreeDataGraph")
AddResourceDataGraph ==
  /\ pc = "L64"
  /\ fn' = add_resource(fn, "VTreeDataGraph")
  /\ dgraph_owner' = "fn"
  /\ calls' = Append(calls, "add_resource")
  /\ pc' = "L65"
  /\ UNCHANGED <<btree, vtree, vtree_owner, frozen, opt_graph, data_graph, graph,
                 input_sockets, output_sockets, fgraph, fn_state, result, fault>>
  /\ UNCHANGED <<stkVars, callVars, uiVars>>

\* line 65: return fn
ReturnFn ==
  /\ pc = "L65"
  /\ result' = "fn"
  /\ vtree' = VTreeAtScopeExit
  /\ data_graph' = DataGraphAtScopeExit
  /\ pc' = "returned"
  /\ UNCHANGED <<btree, vtree_owner, frozen, opt_graph, dgraph_owner, graph,
                 input_sockets, output_sockets, fgraph, fn, fn_state, fault, calls>>
  /\ UNCHANGED <<stkVars, callVars, uiVars>>

\* the caller drops the returned Function: its resources die with it
DestroyFunction ==
  /\ pc = "returned"
  /\ result = "fn"
  /\ fn_state' = "destroyed"
  /\ vtree' = IF vtree_owner = "fn" THEN "destroyed" ELSE vtree
  /\ data_graph' = IF dgraph_owner = "fn" THEN "destroyed" ELSE data_graph
  /\ pc' = "dropped"
  /\ UNCHANGED <<btree, vtree_owner, frozen, opt_graph, dgraph_owner, graph,
                 input_sockets, output_sockets, fgraph, fn, result, fault, calls>>
  /\ UNCHANGED <<stkVars, callVars, uiVars>>

----------------------------------------------------------------------------
(* ExecutionContext, TupleCallBody::call__setup_stack and                  *)
(* LazyInTupleCallBody::call__setup_stack                                  *)

MaxCallDepth == 4   \* activations on the C++ call stack
MaxFrames == 4      \* frames on the execution context's stack
MaxNestedDepth == 8   \* activations when implementations only call wrappers
MaxNestedFrames == 6  \* frames when implementations only call wrappers

FnNames == {"fnA", "fnB"}        \* this->owner().name()
Bodies == {"TupleCallBody", "LazyInTupleCallBody"}
Overloads == {"plain", "extra_frame", "source_info"}

NoFrame == [kind |-> "none", info |-> ""]
TextStackFrame(name) == [kind |-> "text", info |-> name]
SourceInfoStackFrame(source_info) == [kind |-> "source_info", info |-> source_info.info]

\* frames a caller passes as extra_frame, and the SourceInfo objects it passes
CallerFrames == {[kind |-> "custom", info |-> "caller"]}
SourceInfos == {[kind |-> "SourceInfo", info |-> "node"]}
\* a frame an implementation pushes and does not pop
LeftoverFrame == [kind |-> "custom", info |-> "leftover"]

\* ExecutionStack::push
push(stack, frame) == Append(stack, frame)
\* ExecutionStack::pop, on a stack that is not empty
pop(stack) == SubSeq(stack, 1, Len(stack) - 1)

\* The wrappers, as the statements they execute in order.
\*   push_text        TextStackFrame frame(owner().name()); ctx.stack().push(&frame)
\*   push_extra       ctx.stack().push(&extra_frame)
\*   call_impl        this->call(...)
\*   call_plain       this->call__setup_stack(fn_in, fn_out, ctx[, state])
\*   call_with_source SourceInfoStackFrame frame(source_info);
\*                    this->call__setup_stack(fn_in, fn_out, ctx[, state], frame)
\*   pop              ctx.stack().pop()
\* mutant: the wrapper returns without having called the implementation
TupleCall_setup_stack_without_call == <<"push_text", "pop">>
\* mutant: the implementation is called before the function's frame is pushed
TupleCall_call_before_push == <<"call_impl", "push_text", "pop">>
TupleCall_setup_stack == <<"push_text", "call_impl", "pop">>
\* mutant: the overload taking an extra frame pops twice
TupleCall_extra_frame_pops_twice == <<"push_extra", "call_plain", "pop", "pop">>
\* mutant: the overload taking an extra frame returns without its pop
LazyIn_extra_frame_without_pop == <<"push_extra", "call_plain">>
TupleCall_setup_stack_extra_frame == <<"push_extra", "call_plain", "pop">>
TupleCall_setup_stack_source_info == <<"call_with_source">>
\* ExecutionStack stack; ExecutionContext ctx(stack); are part of the entry
TupleCall_setup_execution_context == <<"call_plain">>
LazyIn_setup_stack == <<"push_text", "call_impl", "pop">>
LazyIn_setup_stack_extra_frame == <<"push_extra", "call_plain", "pop">>
LazyIn_setup_stack_source_info == <<"call_with_source">>

Program(body, overload) ==
  CASE body = "TupleCallBody" /\ overload = "plain" -> TupleCall_setup_stack
    [] body = "TupleCallBody" /\ overload = "extra_frame" -> TupleCall_setup_stack_extra_frame
    [] body = "TupleCallBody" /\ overload = "source_info" -> TupleCall_setup_stack_source_info
    [] body = "TupleCallBody" /\ overload = "execution_context" ->
         TupleCall_setup_execution_context
    [] body = "LazyInTupleCallBody" /\ overload = "plain" -> LazyIn_setup_stack
    [] body = "LazyInTupleCallBody" /\ overload = "extra_frame" -> LazyIn_setup_stack_extra_frame
    [] OTHER -> LazyIn_setup_stack_source_info

\* activations a call of the overload puts on the call stack, down to the
\* implementation's call
ActivationsOf(overload) ==
  CASE overload = "plain" -> 2
    [] overload = "extra_frame" -> 3
    [] OTHER -> 4

\* the arguments a caller can pass to an overload besides the tuples
ArgsOf(overload) ==
  CASE overload = "plain" -> {NoFrame}
    [] overload = "extra_frame" -> CallerFrames
    [] OTHER -> SourceInfos

\* a new activation of a wrapper; entry, pushes and pops are history
Wrapper(body, overload, owner, arg, stack) ==
  [kind |-> "wrapper", body |-> body, overload |-> overload, owner |-> owner,
   arg |-> arg, ip |-> 1, entry |-> stack, impl_ok |-> TRUE, pushes |-> 0,
   pops |-> 0]

\* a new activation of an implementation's call
Impl(body, owner, stack) ==
  [kind |-> "impl", body |-> body, overload |-> "call", owner |-> owner,
   arg |-> NoFrame, ip |-> 1, entry |-> stack, impl_ok |-> TRUE, pushes |-> 0,
   pops |-> 0]

NoReturn == [body |-> "none", overload |-> "none", before |-> <<>>, after |-> <<>>,
             impl_ok |-> TRUE, pushes |-> 0, pops |-> 0]

Depth == Len(cstack)
Top == cstack[Depth]
Running == fault = NoFault /\ Depth > 0
\* the statement the running wrapper is at
AtStatement(op) ==
  /\ Running
  /\ Top.kind = "wrapper"
  /\ Top.ip <= Len(Program(Top.body, Top.overload))
  /\ Program(Top.body, Top.overload)[Top.ip] = op

SetTop(stack, rec) == [stack EXCEPT ![Len(stack)] = rec]
Advance(rec) == [rec EXCEPT !.ip = @ + 1]

InitStack ==
  /\ estack \in {<<>>, <<[kind |-> "custom", info |-> "outer"]>>}
  /\ cstack = <<>>
  /\ log = NoReturn
  /\ fault = NoFault

\* some code outside any wrapper calls one of the call__setup_stack overloads;
\* a run follows one such outermost call
CallerCalls ==
  /\ fault = NoFault
  /\ Depth = 0
  /\ log = NoReturn
  /\ Len(estack) + 2 <= MaxFrames
  /\ \E body \in Bodies, overload \in Overloads, owner \in FnNames :
       \E arg \in ArgsOf(overload) :
         cstack' = <<Wrapper(body, overload, owner, arg, estack)>>
  /\ UNCHANGED <<estack, log, fault>>
  /\ UNCHANGED <<genVars, uiVars, callVars>>

\* an implementation's call calls a call__setup_stack overload of some body,
\* as long as the call stack and the frame stack stay within the given sizes
ImplCallsWithin(max_depth, max_frames) ==
  /\ Running
  /\ Top.kind = "impl"
  /\ Len(estack) + 2 <= max_frames
  /\ \E body \in Bodies, overload \in Overloads, owner \in FnNames :
       /\ Depth + ActivationsOf(overload) <= max_depth
       /\ \E arg \in ArgsOf(overload) :
            cstack' = Append(cstack, Wrapper(body, overload, owner, arg, estack))
  /\ UNCHANGED <<estack, log, fault>>
  /\ UNCHANGED <<genVars, uiVars, callVars>>

ImplCalls == ImplCallsWithin(MaxCallDepth, MaxFrames)

\* the same where implementations use the frame stack through the wrappers only
ImplCallsNested == ImplCallsWithin(MaxNestedDepth, MaxNestedFrames)


\* TextStackFrame frame(this->owner().name().data()); ctx.stack().push(&frame);
PushText ==
  /\ AtStatement("push_text")
  /\ estack' = push(estack, TextStackFrame(Top.owner))
  /\ cstack' = SetTop(cstack, [Advance(Top) EXCEPT !.pushes = @ + 1])
  /\ UNCHANGED <<log, fault>>
  /\ UNCHANGED <<genVars, uiVars, callVars>>

\* ctx.stack().push(&extra_frame);
PushExtra ==
  /\ AtStatement("push_extra")
  /\ estack' = push(estack, Top.arg)
  /\ cstack' = SetTop(cstack, [Advance(Top) EXCEPT !.pushes = @ + 1])
  /\ UNCHANGED <<log, fault>>
  /\ UNCHANGED <<genVars, uiVars, callVars>>

\* this->call(fn_in, fn_out, ctx[, state]);
CallImpl ==
  /\ AtStatement("call_impl")
  /\ cstack' = Append(SetTop(cstack, Advance(Top)), Impl(Top.body, Top.owner, estack))
  /\ UNCHANGED <<estack, log, fault>>
  /\ UNCHANGED <<genVars, uiVars, callVars>>

\* this->call__setup_stack(fn_in, fn_out, ctx[, state]);
CallPlain ==
  /\ AtStatement("call_plain")
  /\ cstack' = Append(SetTop(cstack, Advance(Top)),
                      Wrapper(Top.body, "plain", Top.owner, NoFrame, estack))
  /\ UNCHANGED <<estack, log, fault>>
  /\ UNCHANGED <<genVars, uiVars, callVars>>

\* SourceInfoStackFrame frame(source_info);
\* this->call__setup_stack(fn_in, fn_out, ctx[, state], frame);
CallWithSource ==
  /\ AtStatement("call_with_source")
  /\ cstack' = Append(SetTop(cstack, Advance(Top)),
                      Wrapper(Top.body, "extra_frame", Top.owner,
                              SourceInfoStackFrame(Top.arg), estack))
  /\ UNCHANGED <<estack, log, fault>>
  /\ UNCHANGED <<genVars, uiVars, callVars>>

\* mutant: the wrapper's pop also clears the requests of the LazyState
PopClearingRequests ==
  /\ AtStatement("pop")
  /\ estack # <<>>
  /\ estack' = pop(estack)
  /\ cstack' = SetTop(cstack, [Advance(Top) EXCEPT !.pops = @ + 1])
  /\ state' = [state EXCEPT !.m_requested_inputs = <<>>]
  /\ UNCHANGED <<log, fault, genVars, uiVars, tupVars>>
  /\ UNCHANGED <<lpc, always_required, ctor_user_data, last_op, done_signals,
                 entered_after_done, start_calls>>

\* ctx.stack().pop(); popping an empty stack is undefined
Pop ==
  /\ AtStatement("pop")
  /\ IF estack # <<>>
     THEN /\ estack' = pop(estack)
          /\ cstack' = SetTop(cstack, [Advance(Top) EXCEPT !.pops = @ + 1])
          /\ UNCHANGED fault
     ELSE /\ \E build \in Builds :
               fault' = [kind |-> "pop_empty_stack",
                         outcome |-> IF build = "debug" THEN "assertion_abort"
                                     ELSE "memory_fault"]
          /\ UNCHANGED <<estack, cstack>>
  /\ UNCHANGED log
  /\ UNCHANGED <<genVars, uiVars, callVars>>

\* what a returning callee tells the activation that called it
AfterCallee(caller, callee, stack) ==
  IF callee.kind = "impl"
  THEN [caller EXCEPT !.impl_ok = (stack = callee.entry)]
  ELSE [caller EXCEPT !.impl_ok = callee.impl_ok]

\* the call stack once its top activation has returned
Unwound ==
  IF Depth = 1 THEN <<>>
  ELSE SetTop(SubSeq(cstack, 1, Depth - 1),
              AfterCallee(cstack[Depth - 1], Top, estack))

\* a wrapper reaches its closing brace
WrapperReturns ==
  /\ Running
  /\ Top.kind = "wrapper"
  /\ Top.ip > Len(Program(Top.body, Top.overload))
  /\ log' = IF Depth = 1
             THEN [body |-> Top.body, overload |-> Top.overload,
                   before |-> Top.entry, after |-> estack,
                   impl_ok |-> Top.impl_ok, pushes |-> Top.pushes,
                   pops |-> Top.pops]
             ELSE log
  /\ cstack' = Unwound
  /\ UNCHANGED <<estack, fault>>
  /\ UNCHANGED <<genVars, uiVars, callVars>>

\* an implementation pushes a frame that it never pops
ImplLeavesFrame ==
  /\ Running
  /\ Top.kind = "impl"
  /\ Top.pushes = 0 /\ Top.pops = 0
  /\ Len(estack) < MaxFrames
  /\ estack' = push(estack, LeftoverFrame)
  /\ cstack' = SetTop(cstack, [Top EXCEPT !.pushes = 1])
  /\ UNCHANGED <<log, fault>>
  /\ UNCHANGED <<genVars, uiVars, callVars>>

\* an implementation pops a frame that it did not push
ImplTakesFrame ==
  /\ Running
  /\ Top.kind = "impl"
  /\ Top.pushes = 0 /\ Top.pops = 0
  /\ estack # <<>>
  /\ estack' = pop(estack)
  /\ cstack' = SetTop(cstack, [Top EXCEPT !.pops = 1])
  /\ UNCHANGED <<log, fault>>
  /\ UNCHANGED <<genVars, uiVars, callVars>>

\* an implementation's call returns
ImplReturns ==
  /\ Running
  /\ Top.kind = "impl"
  /\ cstack' = Unwound
  /\ UNCHANGED <<estack, log, fault>>
  /\ UNCHANGED <<genVars, uiVars, callVars>>

----------------------------------------------------------------------------
(* class LazyState *)

MaxInputs == 2     \* elements of fn_in
MaxOutputs == 2    \* elements of fn_out
MaxEntries == 2    \* entries of one lazy call
MaxRequests == 2   \* requests recorded during one entry
MaxUINodes == 3    \* nodes of a node tree
MaxUILinks == 3    \* links of a node tree
MaxLabel == 10     \* characters of the label of an input in the node view

Buffers == {"buf1", "buf2"}     \* the user data buffers a caller can allocate
NoBuffer == "nullptr"
InputIndices == 0..(MaxInputs - 1)

\* mutant: the object forgets the pointer it was constructed with
done_releasing_user_data(st) ==
  [st EXCEPT !.m_is_done = TRUE, !.m_user_data = NoBuffer]
\* mutant: the entry counter advances and the requests of the last entry stay
start_next_entry_keeps_requests(st) ==
  [st EXCEPT !.m_entry_count = UintInc(@)]

\* mutant: a new entry takes back the done signal
start_next_entry_clears_done(st) ==
  [st EXCEPT !.m_entry_count = UintInc(@), !.m_requested_inputs = <<>>,
             !.m_is_done = FALSE]

\* mutant: done() leaves the object as it was
done_without_effect(st) == st
\* mutant: the second entry is taken for the first
is_second_entry(st) == st.m_entry_count = Uint(2)

\* the member initializers and LazyState(void *user_data)
LazyState(user_data_arg) ==
  [m_entry_count |-> Uint(0), m_is_done |-> FALSE,
   m_user_data |-> user_data_arg, m_requested_inputs |-> <<>>]

start_next_entry(st) ==
  [st EXCEPT !.m_entry_count = UintInc(@), !.m_requested_inputs = <<>>]

request_input(st, index) ==
  [st EXCEPT !.m_requested_inputs = Append(@, index)]

done(st) == [st EXCEPT !.m_is_done = TRUE]

requested_inputs(st) == st.m_requested_inputs
is_first_entry(st) == st.m_entry_count = Uint(1)
is_done(st) == st.m_is_done
user_data(st) == st.m_user_data

\* history kept with each call of a member function
NoOp == [name |-> "none", dropped |-> 0]

\* The number of calls of start_next_entry so far, which has no upper limit:
\* wraps * 2^32 + rest. in_run counts the calls the model has followed.
NoCalls == [wraps |-> 0, rest |-> Uint(0), in_run |-> 0]
OneMoreCall(c) ==
  [wraps |-> IF UintInc(c.rest) = Uint(0) THEN c.wraps + 1 ELSE c.wraps,
   rest |-> UintInc(c.rest),
   in_run |-> c.in_run + 1]

CallConstructor(user_data_arg) ==
  /\ state' = LazyState(user_data_arg)
  /\ ctor_user_data' = user_data_arg
  /\ last_op' = [name |-> "LazyState", dropped |-> 0]
  /\ done_signals' = 0
  /\ entered_after_done' = FALSE
  /\ start_calls' = NoCalls

CallStartNextEntry ==
  /\ state' = start_next_entry(state)
  /\ last_op' = [name |-> "start_next_entry",
                 dropped |-> Len(state.m_requested_inputs)]
  /\ entered_after_done' = (entered_after_done \/ done_signals > 0)
  /\ start_calls' = OneMoreCall(start_calls)
  /\ UNCHANGED <<ctor_user_data, done_signals>>

CallRequestInput(index) ==
  /\ state' = request_input(state, index)
  /\ last_op' = [name |-> "request_input", dropped |-> 0]
  /\ UNCHANGED <<ctor_user_data, done_signals, entered_after_done, start_calls>>

CallDone ==
  /\ state' = done(state)
  /\ last_op' = [name |-> "done", dropped |-> 0]
  /\ done_signals' = IF done_signals < 2 THEN done_signals + 1 ELSE 2
  /\ UNCHANGED <<ctor_user_data, entered_after_done, start_calls>>

\* no tuple and no LazyState is in use
\* no node tree is being worked on
NoTree == <<>>
NoUiArg == [op |-> "none"]
NoUiHist == [op |-> "none"]

InitUiIdle ==
  /\ ntree = NoTree
  /\ nflag = <<>>
  /\ ustack = <<>>
  /\ uarg = NoUiArg
  /\ uhist = NoUiHist

InitCallIdle ==
  /\ fn_in = <<>>
  /\ fn_out = <<>>
  /\ fn_out_entry = <<>>
  /\ state = LazyState(NoBuffer)
  /\ lpc = "idle"
  /\ always_required = {}
  /\ ctor_user_data = NoBuffer
  /\ last_op = NoOp
  /\ done_signals = 0
  /\ entered_after_done = FALSE
  /\ start_calls = NoCalls

\* Any code holding a LazyState calls its member functions in any order.
InitLazyState ==
  /\ \E user_data_arg \in Buffers :
       /\ state = LazyState(user_data_arg)
       /\ ctor_user_data = user_data_arg
  /\ last_op = [name |-> "LazyState", dropped |-> 0]
  /\ done_signals = 0
  /\ entered_after_done = FALSE
  /\ start_calls = NoCalls
  /\ lpc = "any"
  /\ always_required = {}
  /\ fn_in = <<>>
  /\ fn_out = <<>>
  /\ fn_out_entry = <<>>

\* A LazyState that has lived through 2^32 - 1 entries: each of them was
\* started by start_next_entry and nothing else was called.
ManyCalls == [wraps |-> 0, rest |-> [hi |-> LIMB - 1, lo |-> LIMB - 1], in_run |-> 0]

InitLazyStateLate ==
  /\ \E user_data_arg \in Buffers :
       /\ ctor_user_data = user_data_arg
       /\ \/ /\ state = LazyState(user_data_arg)
             /\ start_calls = NoCalls
             /\ last_op = [name |-> "LazyState", dropped |-> 0]
          \/ /\ state = [LazyState(user_data_arg) EXCEPT !.m_entry_count = ManyCalls.rest]
             /\ start_calls = ManyCalls
             /\ last_op = [name |-> "start_next_entry", dropped |-> 0]
  /\ done_signals = 0
  /\ entered_after_done = FALSE
  /\ lpc = "any"
  /\ always_required = {}
  /\ fn_in = <<>>
  /\ fn_out = <<>>
  /\ fn_out_entry = <<>>

AnyStartNextEntry ==
  /\ lpc = "any"
  /\ start_calls.in_run < MaxEntries
  /\ CallStartNextEntry
  /\ UNCHANGED <<lpc, always_required, tupVars, genVars, uiVars, fault, stkVars>>

AnyRequestInput ==
  /\ lpc = "any"
  /\ Len(state.m_requested_inputs) < MaxRequests
  /\ \E index \in InputIndices : CallRequestInput(index)
  /\ UNCHANGED <<lpc, always_required, tupVars, genVars, uiVars, fault, stkVars>>

AnyDone ==
  /\ lpc = "any"
  /\ CallDone
  /\ UNCHANGED <<lpc, always_required, tupVars, genVars, uiVars, fault, stkVars>>

----------------------------------------------------------------------------
(* TupleCallBody::call and its callers *)

\* a tuple of n elements that are all initialized / whose elements may or may
\* not be initialized
FullTuple(n) == [i \in 1..n |-> TRUE]
AnyTuples(n) == [1..n -> BOOLEAN]
AllInitialized(tuple) == \A i \in DOMAIN tuple : tuple[i]

InitTuple ==
  /\ InitStack
  /\ \E n \in 0..MaxInputs : fn_in = FullTuple(n)
  /\ \E n \in 0..MaxOutputs : fn_out \in AnyTuples(n)
  /\ fn_out_entry = fn_out
  /\ state = LazyState(NoBuffer)
  /\ lpc = "tuple"
  /\ always_required = {}
  /\ ctor_user_data = NoBuffer
  /\ last_op = NoOp
  /\ done_signals = 0
  /\ entered_after_done = FALSE
  /\ start_calls = NoCalls

\* the owner of the tuples calls one of the call__setup_stack overloads of a
\* tuple-call body
TupleCallerCalls ==
  /\ lpc = "tuple"
  /\ fault = NoFault
  /\ Depth = 0
  /\ log = NoReturn
  /\ Len(estack) + 2 <= MaxFrames
  /\ \E overload \in Overloads, owner \in FnNames :
       \E arg \in ArgsOf(overload) :
         cstack' = <<Wrapper("TupleCallBody", overload, owner, arg, estack)>>
  /\ UNCHANGED <<estack, log, fault>>
  /\ UNCHANGED <<genVars, uiVars, callVars>>

\* call__setup_execution_context: the call runs on a stack of its own
CallSetupExecutionContext ==
  /\ lpc = "tuple"
  /\ fault = NoFault
  /\ Depth = 0
  /\ log = NoReturn
  /\ estack' = <<>>
  /\ \E owner \in FnNames :
       cstack' = <<Wrapper("TupleCallBody", "execution_context", owner,
                           NoFrame, <<>>)>>
  /\ UNCHANGED <<log, fault>>
  /\ UNCHANGED <<genVars, uiVars, callVars>>

\* the implementation initializes an element of fn_out
TupleImplInitializes ==
  /\ lpc = "tuple"
  /\ Running
  /\ Top.kind = "impl"
  /\ \E i \in DOMAIN fn_out :
       /\ ~fn_out[i]
       /\ fn_out' = [fn_out EXCEPT ![i] = TRUE]
  /\ UNCHANGED <<fn_in, fn_out_entry, lazyVars, genVars, uiVars, fault, stkVars>>

\* the implementation destroys or relocates a value of fn_in
TupleImplTakesInput ==
  /\ lpc = "tuple"
  /\ Running
  /\ Top.kind = "impl"
  /\ \E i \in DOMAIN fn_in :
       /\ fn_in[i]
       /\ fn_in' = [fn_in EXCEPT ![i] = FALSE]
  /\ UNCHANGED <<fn_out, fn_out_entry, lazyVars, genVars, uiVars, fault, stkVars>>

\* the implementation's call ends, every element of fn_out being initialized
TupleImplReturns ==
  /\ lpc = "tuple"
  /\ AllInitialized(fn_out)
  /\ ImplReturns

----------------------------------------------------------------------------
(* A lazy call: the caller of a LazyInTupleCallBody and its implementation *)

\* the element of a tuple that an input index names
Element(index) == index + 1
\* an activation of the implementation that has executed something
Acted(rec) == [rec EXCEPT !.ip = 2]
\* the implementation's call is running
InLazyImpl ==
  /\ lpc = "in_call"
  /\ Running
  /\ Top.kind = "impl"

InitLazy ==
  /\ estack = <<>>
  /\ cstack = <<>>
  /\ log = NoReturn
  /\ fault = NoFault
  /\ fn_in = [i \in 1..MaxInputs |-> FALSE]
  /\ always_required \in SUBSET InputIndices
  /\ fn_out = [i \in 1..MaxOutputs |-> FALSE]
  /\ fn_out_entry = fn_out
  /\ state = LazyState(NoBuffer)
  /\ lpc = "alloc"
  /\ ctor_user_data = NoBuffer
  /\ last_op = NoOp
  /\ done_signals = 0
  /\ entered_after_done = FALSE
  /\ start_calls = NoCalls

\* the caller allocates the user data buffer, constructs the LazyState and
\* computes the inputs that are always required
CallerPrepares ==
  /\ lpc = "alloc"
  /\ \E buffer \in Buffers : CallConstructor(buffer)
  /\ fn_in' = [i \in DOMAIN fn_in |-> \E index \in always_required : i = Element(index)]
  /\ lpc' = "enter"
  /\ UNCHANGED <<fn_out, fn_out_entry, always_required, genVars, uiVars, fault, stkVars>>

\* the caller starts the next entry unless the call is done
CallerStartsEntry ==
  /\ lpc = "enter"
  /\ ~is_done(state)
  /\ UintLess(state.m_entry_count, Uint(MaxEntries))
  /\ CallStartNextEntry
  /\ lpc' = "call"
  /\ UNCHANGED <<always_required, tupVars, genVars, uiVars, fault, stkVars>>

\* the caller calls one of the call__setup_stack overloads of the lazy body
CallerCallsLazy ==
  /\ lpc = "call"
  /\ fault = NoFault
  /\ Depth = 0
  /\ Len(estack) + 2 <= MaxFrames
  /\ \E overload \in Overloads, owner \in FnNames :
       \E arg \in ArgsOf(overload) :
         cstack' = <<Wrapper("LazyInTupleCallBody", overload, owner, arg, estack)>>
  /\ lpc' = "in_call"
  /\ UNCHANGED <<state, always_required, ctor_user_data, last_op, done_signals,
                 entered_after_done, start_calls, tupVars>>
  /\ UNCHANGED <<estack, log, fault, genVars, uiVars>>

\* state.request_input(index) for an input that is not available and not
\* requested yet
LazyImplRequestsInput ==
  /\ InLazyImpl
  /\ done_signals = 0
  /\ \E index \in InputIndices :
       /\ Element(index) \in DOMAIN fn_in
       /\ ~fn_in[Element(index)]
       /\ \A j \in DOMAIN requested_inputs(state) :
            requested_inputs(state)[j] # index
       /\ CallRequestInput(index)
  /\ cstack' = SetTop(cstack, Acted(Top))
  /\ UNCHANGED <<lpc, always_required, tupVars, genVars, uiVars, fault, estack, log>>

\* the implementation destroys or relocates a value of fn_in
LazyImplTakesInput ==
  /\ InLazyImpl
  /\ \E i \in DOMAIN fn_in :
       /\ fn_in[i]
       /\ fn_in' = [fn_in EXCEPT ![i] = FALSE]
  /\ cstack' = SetTop(cstack, Acted(Top))
  /\ UNCHANGED <<fn_out, fn_out_entry, lazyVars, genVars, uiVars, fault, estack, log>>

\* the implementation initializes the next element of fn_out
LazyImplInitializes ==
  /\ InLazyImpl
  /\ \E i \in DOMAIN fn_out :
       /\ ~fn_out[i]
       /\ \A j \in 1..(i - 1) : fn_out[j]
       /\ fn_out' = [fn_out EXCEPT ![i] = TRUE]
  /\ cstack' = SetTop(cstack, Acted(Top))
  /\ UNCHANGED <<fn_in, fn_out_entry, lazyVars, genVars, uiVars, fault, estack, log>>

\* state.done(), once, with the output tuple fully initialized
LazyImplDone ==
  /\ InLazyImpl
  /\ done_signals = 0
  /\ AllInitialized(fn_out)
  /\ CallDone
  /\ cstack' = SetTop(cstack, Acted(Top))
  /\ UNCHANGED <<lpc, always_required, tupVars, genVars, uiVars, fault, estack, log>>

\* the implementation's call ends
LazyImplReturns ==
  /\ lpc = "in_call"
  /\ ImplReturns

\* back in the caller: the call is over when is_done(), otherwise the caller
\* computes the requested inputs and enters again
CallerChecksDone ==
  /\ lpc = "in_call"
  /\ fault = NoFault
  /\ Depth = 0
  /\ IF is_done(state)
     THEN /\ lpc' = "finished"
          /\ UNCHANGED fn_in
     ELSE /\ lpc' = "enter"
          /\ fn_in' = [i \in DOMAIN fn_in |->
                         \/ fn_in[i]
                         \/ \E j \in DOMAIN requested_inputs(state) :
                              i = Element(requested_inputs(state)[j])]
  /\ UNCHANGED <<fn_out, fn_out_entry, state, always_required, ctor_user_data,
                 last_op, done_signals, entered_after_done, start_calls>>
  /\ UNCHANGED <<genVars, uiVars, fault, stkVars>>

(* The node tree of the node link menu and the node view *)

\* bNode pointers; NULL is 0
NullNodeId == 0
\* sock->link == NULL
NoLink == [fromnode |-> 0, fromsock |-> 0]
\* node->id == NULL
NoGroup == "none"
\* the node groups of the file
Groups == {"G1", "G2"}
NoUsers == [ngroup \in Groups |-> 0]

\* the bNode with this address
NodeAt(nodes, id) == CHOOSE k \in DOMAIN nodes : nodes[k].id = id
NodeOf(nodes, id) == nodes[NodeAt(nodes, id)]
NodeIdsOf(nodes) == {nodes[k].id : k \in DOMAIN nodes}
HasNode(nodes, id) == id \in NodeIdsOf(nodes)

\* node->flag & NODE_TEST
HasTest(id) == nflag[id]

\* one activation of a function on the C stack
Frame(fn_name, label, node_id, node_i, sock_j, draw_depth) ==
  [fn |-> fn_name, pc |-> label, node |-> node_id, i |-> node_i, j |-> sock_j,
   depth |-> draw_depth]

UDepth == Len(ustack)
UTop == ustack[UDepth]
USetTop(rec) == [ustack EXCEPT ![UDepth] = rec]
UPop == SubSeq(ustack, 1, UDepth - 1)
InFunction(fn_name, label) ==
  /\ UDepth > 0
  /\ UTop.fn = fn_name
  /\ UTop.pc = label

\* mutant: the node is tagged although it carries the tag already
tag_test_missing(id) == id = NullNodeId
\* mutant: the recursion also returns at a tagged node
clear_test_inverted(id) == id = NullNodeId \/ HasTest(id)

\* if(!node || (node->flag & NODE_TEST)) return;
tag_returns_at_once(id) == id = NullNodeId \/ HasTest(id)

\* if(!node || !(node->flag & NODE_TEST)) return;
clear_returns_at_once(id) == id = NullNodeId \/ ~HasTest(id)

\* if(sock->link && sock->link->fromnode != rem_node)
scan_follows(link) == link # NoLink /\ link.fromnode # UTop.node

\* one more in a history count
Counted(f, id) == [f EXCEPT ![id] = @ + 1]

\* ui_node_tag_recursive up to its loop: the early return, or the tag
TagRecursiveEnters ==
  /\ InFunction("ui_node_tag_recursive", "enter")
  /\ IF tag_returns_at_once(UTop.node)
     THEN /\ ustack' = UPop
          /\ UNCHANGED <<nflag, uhist>>
     ELSE /\ nflag' = [nflag EXCEPT ![UTop.node] = TRUE]
          /\ ustack' = USetTop([UTop EXCEPT !.pc = "loop", !.j = 1])
          /\ uhist' = [uhist EXCEPT !.tagged = Counted(@, UTop.node)]
  /\ UNCHANGED <<ntree, uarg, genVars, fault, stkVars, callVars>>

\* for(input=node->inputs.first; input; input=input->next)
\*   if(input->link) ui_node_tag_recursive(input->link->fromnode);
TagRecursiveLoops ==
  /\ InFunction("ui_node_tag_recursive", "loop")
  /\ LET inputs == NodeOf(ntree.nodes, UTop.node).inputs
     IN IF UTop.j > Len(inputs)
        THEN /\ ustack' = UPop
             /\ UNCHANGED uhist
        ELSE IF inputs[UTop.j].link # NoLink
        THEN /\ ustack' = Append(USetTop([UTop EXCEPT !.j = @ + 1]),
                                 Frame("ui_node_tag_recursive", "enter",
                                       inputs[UTop.j].link.fromnode, 0, 0, 0))
             /\ uhist' = [uhist EXCEPT !.tag_calls = @ + 1]
        ELSE /\ ustack' = USetTop([UTop EXCEPT !.j = @ + 1])
             /\ UNCHANGED uhist
  /\ UNCHANGED <<ntree, nflag, uarg, genVars, fault, stkVars, callVars>>

\* ui_node_clear_recursive up to its loop: the early return, or the clearing
ClearRecursiveEnters ==
  /\ InFunction("ui_node_clear_recursive", "enter")
  /\ IF clear_returns_at_once(UTop.node)
     THEN /\ ustack' = UPop
          /\ UNCHANGED <<nflag, uhist>>
     ELSE /\ nflag' = [nflag EXCEPT ![UTop.node] = FALSE]
          /\ ustack' = USetTop([UTop EXCEPT !.pc = "loop", !.j = 1])
          /\ uhist' = [uhist EXCEPT !.cleared = Counted(@, UTop.node)]
  /\ UNCHANGED <<ntree, uarg, genVars, fault, stkVars, callVars>>

\* for(input=node->inputs.first; input; input=input->next)
\*   if(input->link) ui_node_clear_recursive(input->link->fromnode);
ClearRecursiveLoops ==
  /\ InFunction("ui_node_clear_recursive", "loop")
  /\ LET inputs == NodeOf(ntree.nodes, UTop.node).inputs
     IN IF UTop.j > Len(inputs)
        THEN /\ ustack' = UPop
             /\ UNCHANGED uhist
        ELSE IF inputs[UTop.j].link # NoLink
        THEN /\ ustack' = Append(USetTop([UTop EXCEPT !.j = @ + 1]),
                                 Frame("ui_node_clear_recursive", "enter",
                                       inputs[UTop.j].link.fromnode, 0, 0, 0))
             /\ uhist' = [uhist EXCEPT !.clear_calls = @ + 1]
        ELSE /\ ustack' = USetTop([UTop EXCEPT !.j = @ + 1])
             /\ UNCHANGED uhist
  /\ UNCHANGED <<ntree, nflag, uarg, genVars, fault, stkVars, callVars>>

\* History of the outermost call: the tree it was called with and, of the
\* ui_node_remove_linked within it, the argument, the nodes it found, how often
\* each flag was set and cleared by the recursions and how many calls of the
\* recursive functions were made.
History(op_name, before_nodes, nodes, rem_node) ==
  [op |-> op_name,
   before |-> before_nodes,
   rem_node |-> rem_node,
   orig |-> nodes,
   tagged |-> [id \in NodeIdsOf(nodes) |-> 0],
   cleared |-> [id \in NodeIdsOf(nodes) |-> 0],
   tag_calls |-> 0,
   clear_calls |-> 0,
   returned |-> FALSE]

\* if(!rem_node) return;
\* for(node=ntree->nodes.first; node; node=node->next) node->flag &= ~NODE_TEST;
\* ui_node_tag_recursive(rem_node);
RemoveLinkedTags ==
  /\ InFunction("ui_node_remove_linked", "enter")
  /\ IF UTop.node = NullNodeId
     THEN /\ ustack' = UPop
          /\ uhist' = [uhist EXCEPT !.returned = (UDepth = 1)]
          /\ UNCHANGED nflag
     ELSE /\ nflag' = [id \in DOMAIN nflag |-> FALSE]
          /\ ustack' = Append(USetTop([UTop EXCEPT !.pc = "scan", !.i = 1, !.j = 1]),
                              Frame("ui_node_tag_recursive", "enter", UTop.node, 0, 0, 0))
          /\ uhist' = [uhist EXCEPT !.tag_calls = @ + 1]
  /\ UNCHANGED <<ntree, uarg, genVars, fault, stkVars, callVars>>

\* for(node=ntree->nodes.first; node; node=node->next)
\*   if(!(node->flag & NODE_TEST))
\*     for(sock=node->inputs.first; sock; sock=sock->next)
\*       if(sock->link && sock->link->fromnode != rem_node)
\*         ui_node_clear_recursive(sock->link->fromnode);
RemoveLinkedScans ==
  /\ InFunction("ui_node_remove_linked", "scan")
  /\ IF UTop.i > Len(ntree.nodes)
     THEN /\ ustack' = USetTop([UTop EXCEPT !.pc = "free"])
          /\ UNCHANGED uhist
     ELSE LET node == ntree.nodes[UTop.i]
          IN IF UTop.j = 1 /\ HasTest(node.id)
             THEN /\ ustack' = USetTop([UTop EXCEPT !.i = @ + 1])
                  /\ UNCHANGED uhist
             ELSE IF UTop.j > Len(node.inputs)
             THEN /\ ustack' = USetTop([UTop EXCEPT !.i = @ + 1, !.j = 1])
                  /\ UNCHANGED uhist
             ELSE IF scan_follows(node.inputs[UTop.j].link)
             THEN /\ ustack' = Append(USetTop([UTop EXCEPT !.j = @ + 1]),
                                      Frame("ui_node_clear_recursive", "enter",
                                            node.inputs[UTop.j].link.fromnode, 0, 0, 0))
                  /\ uhist' = [uhist EXCEPT !.clear_calls = @ + 1]
             ELSE /\ ustack' = USetTop([UTop EXCEPT !.j = @ + 1])
                  /\ UNCHANGED uhist
  /\ UNCHANGED <<ntree, nflag, uarg, genVars, fault, stkVars, callVars>>

\* nodeFreeNode(ntree, node): the node leaves the list and every link from it
\* or to it goes with it
nodeFreeNode(nodes, id) ==
  LET kept == SelectSeq(nodes, LAMBDA node : node.id # id)
  IN [k \in DOMAIN kept |->
        [kept[k] EXCEPT !.inputs =
           [j \in DOMAIN @ |->
              IF @[j].link.fromnode = id THEN [@[j] EXCEPT !.link = NoLink]
              ELSE @[j]]]]

RECURSIVE FreeTagged(_, _)
\* the loop over the list that frees every node with NODE_TEST
FreeTagged(nodes, ids) ==
  IF ids = <<>> THEN nodes
  ELSE FreeTagged(IF HasTest(Head(ids)) THEN nodeFreeNode(nodes, Head(ids)) ELSE nodes,
                  Tail(ids))

\* for(node=ntree->nodes.first; node; node=next) {
\*   next = node->next;
\*   if(node->flag & NODE_TEST) { if(node->id) node->id->us--; nodeFreeNode(ntree, node); } }
RemoveLinkedFrees ==
  /\ InFunction("ui_node_remove_linked", "free")
  /\ LET ids == [k \in DOMAIN ntree.nodes |-> ntree.nodes[k].id]
         freed == {id \in NodeIdsOf(ntree.nodes) : HasTest(id)}
         with_id == {id \in freed : NodeOf(ntree.nodes, id).group # NoGroup}
     IN /\ ntree' = [nodes |-> FreeTagged(ntree.nodes, ids),
                     group_us |->
                       [ngroup \in Groups |->
                          ntree.group_us[ngroup] -
                            Cardinality({id \in with_id :
                                           NodeOf(ntree.nodes, id).group = ngroup})]]
        /\ nflag' = [id \in DOMAIN nflag \ freed |-> nflag[id]]
  /\ ustack' = UPop
  /\ uhist' = [uhist EXCEPT !.returned = (UDepth = 1)]
  /\ UNCHANGED <<uarg, genVars, fault, stkVars, callVars>>

\* ---- ui_node_remove_linked on every small tree -------------------------

\* the nodes of a tree with these links, each link a pair <<to, from>> of
\* nodes; the links of a node are its input sockets in list order
TreeOfLinks(n, links) ==
  [id \in 1..n |->
     [id |-> id, type |-> "plain", group |-> NoGroup,
      inputs |-> [j \in DOMAIN SelectSeq(links, LAMBDA l : l[1] = id) |->
                    [name |-> "in", collapsed |-> FALSE,
                     link |-> [fromnode |-> SelectSeq(links, LAMBDA l : l[1] = id)[j][2],
                               fromsock |-> 0]]]]]

\* the inputs of the nodes follow each other in list order
LinkLists(n) ==
  {links \in SeqsUpTo((1..n) \X (1..n), MaxUILinks) :
     \A k \in 1..(Len(links) - 1) : links[k][1] <= links[k + 1][1]}

InitRemoveLinked ==
  /\ \E links \in LinkLists(MaxUINodes), rem_node \in 0..MaxUINodes,
        stale \in BOOLEAN :
       /\ ntree = [nodes |-> TreeOfLinks(MaxUINodes, links), group_us |-> NoUsers]
       /\ nflag = [id \in 1..MaxUINodes |-> stale]
       /\ uarg = [op |-> "ui_node_remove_linked", rem_node |-> rem_node]
       /\ ustack = <<Frame("ui_node_remove_linked", "enter", rem_node, 0, 0, 0)>>
       /\ uhist = History("ui_node_remove_linked", TreeOfLinks(MaxUINodes, links),
                          TreeOfLinks(MaxUINodes, links), rem_node)

\* ---- uiTemplateNodeView -------------------------------------------------

\* int indent = (depth > 1)? 2*(depth - 1): 0;
Indent(depth) == IF depth > 1 THEN 2 * (depth - 1) ELSE 0

\* if(!ntree) return;
\* for(tnode=ntree->nodes.first; tnode; tnode=tnode->next) tnode->flag &= ~NODE_TEST;
\* if(input) ui_node_draw_input(layout, C, ntree, node, input, 0);
\* else ui_node_draw_node(layout, C, ntree, node, 0);
TemplateNodeViewDraws ==
  /\ fault = NoFault
  /\ InFunction("uiTemplateNodeView", "enter")
  /\ IF ntree = NoTree
     THEN /\ ustack' = UPop
          /\ uhist' = [uhist EXCEPT !.returned = TRUE]
          /\ UNCHANGED nflag
     ELSE /\ nflag' = [id \in DOMAIN nflag |-> FALSE]
          /\ ustack' = Append(USetTop([UTop EXCEPT !.pc = "return"]),
                              IF UTop.j # 0
                              THEN Frame("ui_node_draw_input", "enter", UTop.node, 0, UTop.j, 0)
                              ELSE Frame("ui_node_draw_node", "loop", UTop.node, 0, 1, 0))
          /\ UNCHANGED uhist
  /\ UNCHANGED <<ntree, uarg, genVars, fault, stkVars, callVars>>

TemplateNodeViewReturns ==
  /\ fault = NoFault
  /\ InFunction("uiTemplateNodeView", "return")
  /\ ustack' = UPop
  /\ uhist' = [uhist EXCEPT !.returned = TRUE]
  /\ UNCHANGED <<ntree, nflag, uarg, genVars, fault, stkVars, callVars>>

\* for(input=node->inputs.first; input; input=input->next)
\*   ui_node_draw_input(layout, C, ntree, node, input, depth+1);
DrawNodeLoops ==
  /\ fault = NoFault
  /\ InFunction("ui_node_draw_node", "loop")
  /\ IF UTop.j > Len(NodeOf(ntree.nodes, UTop.node).inputs)
     THEN ustack' = UPop
     ELSE ustack' = Append(USetTop([UTop EXCEPT !.j = @ + 1]),
                           Frame("ui_node_draw_input", "enter", UTop.node, 0, UTop.j,
                                 UTop.depth + 1))
  /\ UNCHANGED <<ntree, nflag, uarg, uhist, genVars, fault, stkVars, callVars>>

\* ui_node_draw_input up to the drawing of the linked node. memset(label, ' ',
\* indent) and label[indent] = '\0' write beyond char label[UI_MAX_NAME_STR]
\* once indent has reached its size, which is undefined.
DrawInputDraws ==
  /\ fault = NoFault
  /\ InFunction("ui_node_draw_input", "enter")
  /\ IF Indent(UTop.depth) >= MaxLabel
     THEN /\ \E outcome \in {"memory_fault", "stack_overwritten"} :
               fault' = [kind |-> "label_overflow", outcome |-> outcome]
          /\ UNCHANGED <<nflag, ustack>>
     ELSE LET input == NodeOf(ntree.nodes, UTop.node).inputs[UTop.j]
              lnode == input.link.fromnode
          IN /\ nflag' = [nflag EXCEPT ![UTop.node] = TRUE]
             /\ IF lnode # NullNodeId /\ ~input.collapsed
                THEN ustack' = Append(USetTop([UTop EXCEPT !.pc = "clear"]),
                                      Frame("ui_node_draw_node", "loop", lnode, 0, 1,
                                            UTop.depth))
                ELSE ustack' = USetTop([UTop EXCEPT !.pc = "clear"])
             /\ UNCHANGED fault
  /\ UNCHANGED <<ntree, uarg, uhist, genVars, stkVars, callVars>>

\* node->flag &= ~NODE_TEST;
DrawInputClears ==
  /\ fault = NoFault
  /\ InFunction("ui_node_draw_input", "clear")
  /\ nflag' = [nflag EXCEPT ![UTop.node] = FALSE]
  /\ ustack' = UPop
  /\ UNCHANGED <<ntree, uarg, uhist, genVars, fault, stkVars, callVars>>

\* the nodes of a tree with these input sockets, each socket a triple
\* <<node, linked node or NULL, collapsed>>
TreeOfSockets(n, socks) ==
  [id \in 1..n |->
     [id |-> id, type |-> "plain", group |-> NoGroup,
      inputs |-> [j \in DOMAIN SelectSeq(socks, LAMBDA s : s[1] = id) |->
                    LET sock == SelectSeq(socks, LAMBDA s : s[1] = id)[j]
                    IN [name |-> "in", collapsed |-> sock[3],
                        link |-> IF sock[2] = NullNodeId THEN NoLink
                                 ELSE [fromnode |-> sock[2], fromsock |-> 0]]]]]

SocketLists(n) ==
  {socks \in SeqsUpTo((1..n) \X (0..n) \X BOOLEAN, MaxUILinks) :
     \A k \in 1..(Len(socks) - 1) : socks[k][1] <= socks[k + 1][1]}

\* the panel calls uiTemplateNodeView with a tree, a node of it and one of the
\* node's inputs or NULL, or without a tree
InitNodeView ==
  /\ \/ \E socks \in SocketLists(MaxUINodes), node \in 1..MaxUINodes :
          \E input \in 0..Len(TreeOfSockets(MaxUINodes, socks)[node].inputs) :
            /\ ntree = [nodes |-> TreeOfSockets(MaxUINodes, socks), group_us |-> NoUsers]
            /\ nflag = [id \in 1..MaxUINodes |-> FALSE]
            /\ uarg = [op |-> "uiTemplateNodeView", node |-> node, input |-> input]
            /\ ustack = <<Frame("uiTemplateNodeView", "enter", node, 0, input, 0)>>
            /\ uhist = History("uiTemplateNodeView", TreeOfSockets(MaxUINodes, socks),
                               TreeOfSockets(MaxUINodes, socks), NullNodeId)
     \/ /\ ntree = NoTree
        /\ nflag = <<>>
        /\ uarg = [op |-> "uiTemplateNodeView", node |-> NullNodeId, input |-> 0]
        /\ ustack = <<Frame("uiTemplateNodeView", "enter", NullNodeId, 0, 0, 0)>>
        /\ uhist = History("uiTemplateNodeView", <<>>, <<>>, NullNodeId)

\* ---- ui_node_link -------------------------------------------------------

\* The node types of the tree type and the node groups of the file. A type
\* has the names of its inputs, its number of outputs and NODE_OPTIONS or not.
NODE_GROUP == "NODE_GROUP"
NodeTypes == {"TEX", "MIX"}
TypeInfo(type) ==
  IF type = "TEX" THEN [inputs |-> <<>>, outputs |-> 2, options |-> FALSE]
  ELSE [inputs |-> <<"Color">>, outputs |-> 2, options |-> FALSE]

\* arg->type = 0 as uiTemplateNodeLink leaves it
NoType == "0"

\* event_p
UI_NODE_LINK_ADD == "UI_NODE_LINK_ADD"
UI_NODE_LINK_DISCONNECT == "UI_NODE_LINK_DISCONNECT"
UI_NODE_LINK_REMOVE == "UI_NODE_LINK_REMOVE"

\* The NodeLinkArg and event of every button of the menu: one per output of
\* every node type (ngroup NULL), one per output of every group (type 0), and
\* the Remove and Disconnect buttons.
MenuButtons ==
  {[event |-> UI_NODE_LINK_ADD, type |-> type, ngroup |-> NoGroup, output |-> i] :
     type \in NodeTypes, i \in 0..1}
  \cup {[event |-> UI_NODE_LINK_ADD, type |-> NoType, ngroup |-> ngroup, output |-> i] :
          ngroup \in Groups, i \in 0..1}
  \cup {[event |-> event, type |-> NoType, ngroup |-> NoGroup, output |-> 0] :
          event \in {UI_NODE_LINK_REMOVE, UI_NODE_LINK_DISCONNECT}}

\* nodeRemLink(ntree, sock->link) for input j of a node
nodeRemLink(nodes, to_id, j) ==
  [nodes EXCEPT ![NodeAt(nodes, to_id)].inputs[j].link = NoLink]

\* nodeAddLink(ntree, fromnode, fromsock, tonode, tosock)
nodeAddLink(nodes, from_id, fromsock, to_id, j) ==
  [nodes EXCEPT ![NodeAt(nodes, to_id)].inputs[j].link =
                   [fromnode |-> from_id, fromsock |-> fromsock]]

\* the address of a node that nodeAddNode allocates
FreshNode(nodes) ==
  CHOOSE id \in 1..(Len(nodes) + MaxUINodes + 1) :
    /\ id \notin NodeIdsOf(nodes)
    /\ \A other \in NodeIdsOf(nodes) : other < id

\* nodeAddNode(ntree, &ntemp): a node of the type of the template, or of its
\* group, with the sockets of the type, at the end of the list
nodeAddNode(nodes, type, ngroup) ==
  Append(nodes,
         [id |-> FreshNode(nodes), type |-> type,
          group |-> IF type = NODE_GROUP THEN ngroup ELSE NoGroup,
          inputs |-> [j \in DOMAIN TypeInfo(type).inputs |->
                        [name |-> TypeInfo(type).inputs[j], collapsed |-> FALSE,
                         link |-> NoLink]]])

\* for(node_from=ntree->nodes.first; node_from; node_from=node_from->next)
\*   if(node_from->type == arg->type) break;
FirstOfType(nodes, type) ==
  IF \E k \in DOMAIN nodes : nodes[k].type = type
  THEN nodes[CHOOSE k \in DOMAIN nodes :
               /\ nodes[k].type = type
               /\ \A before \in 1..(k - 1) : nodes[before].type # type].id
  ELSE NullNodeId

\* if(!(node_from->inputs.first == NULL && !(node_from->typeinfo->flag & NODE_OPTIONS)))
\*   node_from = NULL;
UsableAsSource(nodes, id) ==
  IF id = NullNodeId THEN NullNodeId
  ELSE IF NodeOf(nodes, id).inputs = <<>> /\ ~TypeInfo(NodeOf(nodes, id).type).options
  THEN id
  ELSE NullNodeId

\* if(node_prev && node_prev->type == arg->type &&
\*    (arg->type != NODE_GROUP || node_prev->id == &arg->ngroup->id))
KeepsPrevious(nodes, node_prev, arg) ==
  /\ node_prev # NullNodeId
  /\ NodeOf(nodes, node_prev).type = arg.type
  /\ (arg.type # NODE_GROUP \/ NodeOf(nodes, node_prev).group = arg.ngroup)

\* if(arg->ngroup) ntemp.type = NODE_GROUP; else ntemp.type = arg->type;
TemplateType(arg) == IF arg.ngroup # NoGroup THEN NODE_GROUP ELSE arg.type

\* the socket of node_prev with the name of a socket of node_from, if any
\* (all sockets of the model have one type)
SameNamed(prev_inputs, name) ==
  {i \in DOMAIN prev_inputs : prev_inputs[i].name = name}

\* copy input sockets from previous node: the link of every input of
\* node_prev moves to the input of node_from with the same name and type
CopyInputs(nodes, node_prev, node_from) ==
  LET prev_inputs == NodeOf(nodes, node_prev).inputs
      from_inputs == NodeOf(nodes, node_from).inputs
      Moved(i) == \E j \in DOMAIN from_inputs :
                    from_inputs[j].name = prev_inputs[i].name
  IN [k \in DOMAIN nodes |->
        IF nodes[k].id = node_from
        THEN [nodes[k] EXCEPT !.inputs =
                [j \in DOMAIN from_inputs |->
                   LET same == {i \in SameNamed(prev_inputs, from_inputs[j].name) :
                                   prev_inputs[i].link # NoLink}
                   IN IF same = {} THEN from_inputs[j]
                      ELSE [from_inputs[j] EXCEPT !.link =
                              prev_inputs[CHOOSE i \in same :
                                            \A o \in same : o <= i].link]]]
        ELSE IF nodes[k].id = node_prev
        THEN [nodes[k] EXCEPT !.inputs =
                [i \in DOMAIN prev_inputs |->
                   IF Moved(i) THEN [prev_inputs[i] EXCEPT !.link = NoLink]
                   ELSE prev_inputs[i]]]
        ELSE nodes[k]]

\* ui_node_link up to its call of ui_node_remove_linked, or to its end. The
\* target is uarg.node with its input uarg.sock.
NodeLinkActs ==
  /\ fault = NoFault
  /\ InFunction("ui_node_link", "enter")
  /\ LET node_to == uarg.node
         sock_to == uarg.sock
         arg == uarg.arg
         node_prev == NodeOf(ntree.nodes, node_to).inputs[sock_to].link.fromnode
         unlinked == IF node_prev # NullNodeId
                     THEN nodeRemLink(ntree.nodes, node_to, sock_to)
                     ELSE ntree.nodes
         found == UsableAsSource(unlinked, FirstOfType(unlinked, arg.type))
         keep == KeepsPrevious(unlinked, node_prev, arg)
         adds == ~keep /\ found = NullNodeId
         node_from == IF keep THEN node_prev
                      ELSE IF adds THEN FreshNode(unlinked) ELSE found
         added == IF adds THEN nodeAddNode(unlinked, TemplateType(arg), arg.ngroup)
                  ELSE unlinked
         linked == nodeAddLink(added, node_from, arg.output, node_to, sock_to)
         replaces == node_prev # NullNodeId /\ node_from # node_prev
         copied == IF replaces THEN CopyInputs(linked, node_prev, node_from) ELSE linked
     IN IF arg.event = UI_NODE_LINK_DISCONNECT
        THEN /\ ntree' = [ntree EXCEPT !.nodes = unlinked]
             /\ ustack' = USetTop([UTop EXCEPT !.pc = "update"])
             /\ UNCHANGED <<nflag, uhist>>
        ELSE IF arg.event = UI_NODE_LINK_REMOVE
        THEN /\ UNCHANGED <<ntree, nflag>>
             /\ IF node_prev # NullNodeId
                THEN /\ ustack' = Append(USetTop([UTop EXCEPT !.pc = "update"]),
                                         Frame("ui_node_remove_linked", "enter",
                                               node_prev, 0, 0, 0))
                     /\ uhist' = History("ui_node_link", uhist.before, ntree.nodes,
                                         node_prev)
                ELSE /\ ustack' = USetTop([UTop EXCEPT !.pc = "update"])
                     /\ UNCHANGED uhist
        ELSE /\ ntree' = [nodes |-> copied,
                          group_us |->
                            IF adds /\ TemplateType(arg) = NODE_GROUP
                            THEN [ntree.group_us EXCEPT ![arg.ngroup] = @ + 1]
                            ELSE ntree.group_us]
             /\ nflag' = [id \in NodeIdsOf(copied) |->
                            IF id \in DOMAIN nflag THEN nflag[id] ELSE FALSE]
             /\ IF replaces
                THEN /\ ustack' = Append(USetTop([UTop EXCEPT !.pc = "update"]),
                                         Frame("ui_node_remove_linked", "enter",
                                               node_prev, 0, 0, 0))
                     /\ uhist' = History("ui_node_link", uhist.before, copied, node_prev)
                ELSE /\ ustack' = USetTop([UTop EXCEPT !.pc = "update"])
                     /\ UNCHANGED uhist
  /\ UNCHANGED <<uarg, genVars, fault, stkVars, callVars>>

\* NodeTagChanged(ntree, node_to); ntreeUpdateTree(ntree);
\* ED_node_generic_update(CTX_data_main(C), ntree, node_to);
NodeLinkUpdates ==
  /\ fault = NoFault
  /\ InFunction("ui_node_link", "update")
  /\ ustack' = UPop
  /\ uhist' = [uhist EXCEPT !.returned = TRUE]
  /\ UNCHANGED <<ntree, nflag, uarg, genVars, fault, stkVars, callVars>>

\* what a node of the tree can be: a node of a type, or a group node
NodeKinds ==
  {[type |-> type, group |-> NoGroup] : type \in NodeTypes}
  \cup {[type |-> NODE_GROUP, group |-> ngroup] : ngroup \in Groups}

\* a tree of these nodes in which every input socket is linked to the output
\* of a node, or to none
LinkedTree(kinds, sources) ==
  [id \in DOMAIN kinds |->
     [id |-> id, type |-> kinds[id].type, group |-> kinds[id].group,
      inputs |-> [j \in DOMAIN TypeInfo(kinds[id].type).inputs |->
                    [name |-> TypeInfo(kinds[id].type).inputs[j],
                     collapsed |-> FALSE,
                     link |-> IF sources[id].fromnode = NullNodeId THEN NoLink
                              ELSE sources[id]]]]]

UsersOf(kinds) ==
  [ngroup \in Groups |-> Cardinality({id \in DOMAIN kinds : kinds[id].group = ngroup})]

\* A button of the menu of an input socket is pressed. The socket belongs to
\* the first node of the list, a node with one input.
InitNodeLink ==
  \E kinds \in [1..MaxUINodes -> NodeKinds] :
    \E sources \in [1..MaxUINodes -> [fromnode : 0..MaxUINodes, fromsock : 0..1]] :
      \E button \in MenuButtons :
        /\ kinds[1].type = "MIX"
        /\ \A id \in 1..MaxUINodes :
             \/ sources[id].fromnode # NullNodeId /\ TypeInfo(kinds[id].type).inputs # <<>>
             \/ sources[id] = NoLink
        /\ button.event # UI_NODE_LINK_ADD => sources[1] # NoLink
        /\ ntree = [nodes |-> LinkedTree(kinds, sources), group_us |-> UsersOf(kinds)]
        /\ nflag = [id \in 1..MaxUINodes |-> FALSE]
        /\ uarg = [op |-> "ui_node_link", node |-> 1, sock |-> 1, arg |-> button]
        /\ ustack = <<Frame("ui_node_link", "enter", 1, 0, 1, 0)>>
        /\ uhist = History("ui_node_link", LinkedTree(kinds, sources),
                           LinkedTree(kinds, sources), NullNodeId)

\* the parts of the model at rest
InitStackIdle ==
  /\ estack = <<>>
  /\ cstack = <<>>
  /\ log = NoReturn

Init == InitGen /\ InitStackIdle /\ InitCallIdle /\ InitUiIdle

Next ==
  \/ BuildVTree
  \/ GenerateGraph
  \/ ReturnEmpty
  \/ ExtractGraph
  \/ FindInterfaceSockets
  \/ MakeFunctionGraph
  \/ NewFunction
  \/ AddDependenciesBody
  \/ AddLLVMBuildIRBody
  \/ AddTupleCallBody
  \/ AddResourceVTree
  \/ AddResourceDataGraph
  \/ ReturnFn
  \/ DestroyFunction

Spec == Init /\ [][Next]_vars

\* generate_function on any tree that can be built, also one whose
\* interface nodes have no socket at all
AnySocketCounts == 0..MaxSockets

AnyTrees == [name : Names,
             in_nodes : SeqsUpTo(AnySocketCounts, MaxNodes),
             out_nodes : SeqsUpTo(AnySocketCounts, MaxNodes)]

InitAnyTree ==
  /\ btree \in AnyTrees
  /\ GenAtEntry
  /\ fault = NoFault
  /\ InitStackIdle
  /\ InitCallIdle
  /\ InitUiIdle

SpecAnyTree == InitAnyTree /\ [][Next]_vars

\* no generation is under way while the wrappers are exercised
InitGenIdle ==
  /\ btree = [name |-> "NTfoo", in_nodes |-> <<>>, out_nodes |-> <<>>]
  /\ GenAtEntry

InitStackSpec == InitStack /\ InitGenIdle /\ InitCallIdle /\ InitUiIdle

NextStack ==
  \/ CallerCalls
  \/ ImplCalls
  \/ PushText
  \/ PushExtra
  \/ CallImpl
  \/ CallPlain
  \/ CallWithSource
  \/ Pop
  \/ WrapperReturns
  \/ ImplLeavesFrame
  \/ ImplTakesFrame
  \/ ImplReturns

SpecStack == InitStackSpec /\ [][NextStack]_vars

NextNested ==
  \/ CallerCalls
  \/ ImplCallsNested
  \/ PushText
  \/ PushExtra
  \/ CallImpl
  \/ CallPlain
  \/ CallWithSource
  \/ Pop
  \/ WrapperReturns
  \/ ImplReturns

SpecNested == InitStackSpec /\ [][NextNested]_vars

InitLazyStateSpec ==
  /\ InitLazyState
  /\ InitGenIdle
  /\ InitStackIdle
  /\ InitUiIdle
  /\ fault = NoFault

NextLazyState ==
  \/ AnyStartNextEntry
  \/ AnyRequestInput
  \/ AnyDone

SpecLazyState == InitLazyStateSpec /\ [][NextLazyState]_vars

\* the same member functions on a LazyState of any age
InitLazyStateLateSpec ==
  /\ InitLazyStateLate
  /\ InitGenIdle
  /\ InitStackIdle
  /\ InitUiIdle
  /\ fault = NoFault

SpecLazyStateLate == InitLazyStateLateSpec /\ [][NextLazyState]_vars

InitTupleSpec == InitTuple /\ InitGenIdle /\ InitUiIdle

NextTuple ==
  \/ TupleCallerCalls
  \/ CallSetupExecutionContext
  \/ PushText
  \/ PushExtra
  \/ CallImpl
  \/ CallPlain
  \/ CallWithSource
  \/ Pop
  \/ WrapperReturns
  \/ TupleImplInitializes
  \/ TupleImplTakesInput
  \/ TupleImplReturns

SpecTuple == InitTupleSpec /\ [][NextTuple]_vars

InitLazySpec == InitLazy /\ InitGenIdle /\ InitUiIdle

NextLazy ==
  \/ CallerPrepares
  \/ CallerStartsEntry
  \/ CallerCallsLazy
  \/ PushText
  \/ PushExtra
  \/ CallImpl
  \/ CallPlain
  \/ CallWithSource
  \/ Pop
  \/ WrapperReturns
  \/ LazyImplRequestsInput
  \/ LazyImplTakesInput
  \/ LazyImplInitializes
  \/ LazyImplDone
  \/ LazyImplReturns
  \/ CallerChecksDone

SpecLazy == InitLazySpec /\ [][NextLazy]_vars

\* ui_node_remove_linked called on any tree with any node, or with NULL
InitRemoveLinkedSpec ==
  /\ InitRemoveLinked
  /\ InitGenIdle
  /\ InitStackIdle
  /\ InitCallIdle
  /\ fault = NoFault

NextRemoveLinked ==
  \/ RemoveLinkedTags
  \/ TagRecursiveEnters
  \/ TagRecursiveLoops
  \/ RemoveLinkedScans
  \/ ClearRecursiveEnters
  \/ ClearRecursiveLoops
  \/ RemoveLinkedFrees

SpecRemoveLinked == InitRemoveLinkedSpec /\ [][NextRemoveLinked]_vars

\* uiTemplateNodeView called on any tree
InitNodeViewSpec ==
  /\ InitNodeView
  /\ InitGenIdle
  /\ InitStackIdle
  /\ InitCallIdle
  /\ fault = NoFault

NextNodeView ==
  \/ TemplateNodeViewDraws
  \/ DrawNodeLoops
  \/ DrawInputDraws
  \/ DrawInputClears
  \/ TemplateNodeViewReturns

SpecNodeView == InitNodeViewSpec /\ [][NextNodeView]_vars

\* ui_node_link called by any button of the menu of an input socket
InitNodeLinkSpec ==
  /\ InitNodeLink
  /\ InitGenIdle
  /\ InitStackIdle
  /\ InitCallIdle
  /\ fault = NoFault

NextNodeLink ==
  \/ NodeLinkActs
  \/ RemoveLinkedTags
  \/ TagRecursiveEnters
  \/ TagRecursiveLoops
  \/ RemoveLinkedScans
  \/ ClearRecursiveEnters
  \/ ClearRecursiveLoops
  \/ RemoveLinkedFrees
  \/ NodeLinkUpdates

SpecNodeLink == InitNodeLinkSpec /\ [][NextNodeLink]_vars

----------------------------------------------------------------------------
(* Properties of generate_function *)

Returned == pc \in {"returned", "dropped"}

\* find_interface_sockets has been run (to its end or to a fault)
SocketsFound == \E j \in 1..Len(calls) : calls[j] = "find_interface_sockets"

PassNames == {"fgraph_add_DependenciesBody", "fgraph_add_LLVMBuildIRBody",
              "fgraph_add_TupleCallBody", "derive_TupleCallBody_from_LLVMBuildIRBody"}

IsPass(c) == c \in PassNames
IsNewFunction(c) == c = "new_function"
IsAddResource(c) == c = "add_resource"

InputNode == InterfaceNode(btree, "fn_FunctionInputNode")
OutputNode == InterfaceNode(btree, "fn_FunctionOutputNode")

\* the data sockets of the declared sockets of a node, its last one left out
DeclaredSockets(node) ==
  [i \in 1..(SocketCount(btree, node) - 1) |-> lookup_socket(btree, graph, node, i - 1)]

Distinct(seq) == \A i, j \in 1..Len(seq) : i # j => seq[i] # seq[j]

\* C1: when generate_graph returned an empty optional, generate_function
\* returns an empty optional, by an ordinary return: it goes from the test at
\* line 42 straight to the return, never faults and never yields a Function.
C1_EmptyWhenGraphFails ==
  opt_graph = "empty" =>
    /\ pc \in {"L42", "returned"}
    /\ pc = "L42" => ENABLED ReturnEmpty
    /\ pc = "returned" => result = "empty"
    /\ result # "fn"
    /\ fault = NoFault

C1_Witness == pc = "returned" /\ opt_graph = "empty" /\ result = "empty"

\* C2: when generate_graph fails there is no side effect: no Function exists,
\* the only calls made are those of lines 38-41 (no find_interface_sockets,
\* no FunctionGraph, no body pass, no add_resource), and once the call has
\* returned the virtual tree built for it has been destroyed.
C2_NoSideEffectOnFailure ==
  opt_graph = "empty" =>
    /\ fn = NoFn /\ fn_state = "none"
    /\ calls = <<"add_all_of_tree", "freeze_and_index", "generate_graph">>
    /\ input_sockets = <<>> /\ output_sockets = <<>>
    /\ fgraph = NoFGraph
    /\ data_graph = "none"
    /\ vtree_owner = "local"
    /\ Returned => vtree = "destroyed"

C2_Witness ==
  /\ pc = "returned" /\ opt_graph = "empty"
  /\ vtree = "destroyed" /\ fn_state = "none" /\ Len(calls) = 3

\* C3: when generate_graph succeeded, generate_function never returns empty:
\* what it returns is the one Function it created, and the Function's name is
\* the name of the tree.
C3_FunctionNamedAfterTree ==
  opt_graph = "value" =>
    /\ result # "empty"
    /\ Len(SelectSeq(calls, IsNewFunction)) <= 1
    /\ Returned =>
         /\ result = "fn"
         /\ fn # NoFn
         /\ fn.name = btree.name
         /\ Len(SelectSeq(calls, IsNewFunction)) = 1
         /\ fault = NoFault

C3_Witness ==
  /\ pc = "returned" /\ opt_graph = "value" /\ result = "fn"
  /\ fn.name = "NTbar" /\ btree.name = "NTbar"

\* C4: with an input node of n >= 1 sockets and an output node of m >= 1
\* sockets, find_interface_sockets ends without a fault, the input set holds
\* n-1 and the output set m-1 elements, element i is the data socket of the
\* node's i-th declared socket, and the elements of a set are pairwise distinct.
C4_InterfaceSetsMatchNode ==
  (SocketsFound /\ InputNode # NullNode /\ OutputNode # NullNode) =>
    /\ fault = NoFault
    /\ Len(input_sockets) = SocketCount(btree, InputNode) - 1
    /\ Len(output_sockets) = SocketCount(btree, OutputNode) - 1
    /\ input_sockets = DeclaredSockets(InputNode)
    /\ output_sockets = DeclaredSockets(OutputNode)
    /\ Distinct(input_sockets) /\ Distinct(output_sockets)

C4_Witness ==
  /\ pc = "L52"
  /\ InputNode # NullNode /\ SocketCount(btree, InputNode) = 3
  /\ OutputNode # NullNode /\ SocketCount(btree, OutputNode) = 3
  /\ Len(input_sockets) = 2 /\ Len(output_sockets) = 2
  /\ input_sockets[1] # input_sockets[2]

\* C5: without an input node the input set stays empty, no fault occurs and
\* the output set is still the one of the output node; without an output node
\* the output set stays empty and the input set is still the one of the input
\* node.
C5_MissingInterfaceNode ==
  SocketsFound =>
    /\ InputNode = NullNode =>
         /\ input_sockets = <<>>
         /\ fault = NoFault
         /\ OutputNode # NullNode => output_sockets = DeclaredSockets(OutputNode)
    /\ OutputNode = NullNode =>
         /\ output_sockets = <<>>
         /\ fault = NoFault
         /\ InputNode # NullNode => input_sockets = DeclaredSockets(InputNode)

C5_Witness ==
  /\ pc = "L52" /\ InputNode = NullNode /\ OutputNode # NullNode
  /\ input_sockets = <<>> /\ Len(output_sockets) = 2

\* C6: for the tree whose input node has two sockets plus the placeholder and
\* whose output node has one socket plus the placeholder, a generation whose
\* graph construction succeeded returns a Function built from a function
\* graph with 2 input sockets and 1 output socket: arity 2 in, 1 out.
C6_RoundTripArity ==
  (Returned /\ opt_graph = "value"
     /\ btree.in_nodes = <<3>> /\ btree.out_nodes = <<2>>) =>
    /\ result = "fn"
    /\ fgraph.built
    /\ Len(fgraph.inputs) = 2 /\ Len(fgraph.outputs) = 1
    /\ fn.n_inputs = 2 /\ fn.n_outputs = 1

C6_Witness ==
  /\ pc = "returned" /\ result = "fn"
  /\ btree.in_nodes = <<3>> /\ btree.out_nodes = <<2>>
  /\ fn.n_inputs = 2 /\ fn.n_outputs = 1

\* C7: the body passes run in the order dependencies, LLVM build-IR, tuple
\* call, each at most once; on a successful generation all three have run,
\* the Function carries exactly these three bodies in this order, and the
\* tuple-call body comes from fgraph_add_TupleCallBody, never from the
\* derivation out of the LLVM body.
C7_ThreeBodyPassesInOrder ==
  LET order == <<"fgraph_add_DependenciesBody", "fgraph_add_LLVMBuildIRBody",
                 "fgraph_add_TupleCallBody">>
      passes == SelectSeq(calls, IsPass)
  IN /\ Len(passes) <= 3
     /\ passes = SubSeq(order, 1, Len(passes))
     /\ Len(fn.bodies) = Len(passes)
     /\ \A i \in 1..Len(fn.bodies) :
          fn.bodies[i] = [kind |-> BodyOf(order[i]), by |-> order[i]]
     /\ result = "fn" => Len(passes) = 3

C7_Witness ==
  /\ pc = "returned" /\ result = "fn" /\ Len(fn.bodies) = 3
  /\ fn.bodies[3].kind = "TupleCallBody"

\* C8: the virtual tree and then the data graph are handed to the Function,
\* each once, after the function graph was built and the three passes ran;
\* from freeze_and_index on, neither object is destroyed before the Function
\* is, and both are destroyed with it.
C8_ResourcesLiveWithFunction ==
  /\ vtree_owner = "fn" =>
       fgraph.built /\ Len(fn.bodies) = 3 /\ Len(fn.resources) >= 1
  /\ dgraph_owner = "fn" => vtree_owner = "fn" /\ Len(fn.resources) = 2
  /\ Len(SelectSeq(calls, IsAddResource)) = Len(fn.resources)
  /\ fn.resources = SubSeq(<<"Virtual Node Tree", "VTreeDataGraph">>, 1,
                           Len(fn.resources))
  /\ result = "fn" =>
       /\ fn.resources = <<"Virtual Node Tree", "VTreeDataGraph">>
       /\ vtree_owner = "fn" /\ dgraph_owner = "fn"
       /\ fn_state = "alive" => vtree = "alive" /\ data_graph = "alive"
       /\ fn_state = "destroyed" => vtree = "destroyed" /\ data_graph = "destroyed"
  /\ (frozen /\ opt_graph # "empty" /\ fn_state # "destroyed") => vtree = "alive"
  /\ (opt_graph = "value" /\ fn_state # "destroyed") =>
       frozen /\ data_graph = "alive"

C8_Witness ==
  /\ pc = "dropped" /\ fn_state = "destroyed"
  /\ vtree = "destroyed" /\ data_graph = "destroyed"
  /\ Len(fn.resources) = 2

\* C9: every data socket in the input set or the output set of the function
\* graph built by generate_function is a socket of the graph that function
\* graph refers to, which is the graph of the data graph just built.
C9_InterfaceSocketsInGraph ==
  fgraph.built =>
    /\ fgraph.graph = graph
    /\ \A s \in Elems(fgraph.inputs) \cup Elems(fgraph.outputs) :
         InGraph(fgraph.graph, s)

C9_Witness ==
  /\ fgraph.built /\ opt_graph = "value"
  /\ Len(fgraph.inputs) = 2 /\ Len(fgraph.outputs) = 2
  /\ graph.pad = 1

----------------------------------------------------------------------------
(* Properties of call__setup_stack *)

\* a wrapper activation that has executed its last statement
AtClosingBrace(a) ==
  a.kind = "wrapper" /\ a.ip > Len(Program(a.body, a.overload))

\* C10: frame balance. When a call__setup_stack wrapper (any of the three
\* overloads of either body class) is about to return and the implementation's
\* call under it left the frame stack as it found it, the frame stack is
\* exactly the one the wrapper was entered with, and the wrapper has executed
\* as many pops as pushes.
C10_FrameBalance ==
  /\ (Running /\ AtClosingBrace(Top) /\ Top.impl_ok) =>
       /\ estack = Top.entry
       /\ Top.pops = Top.pushes
  /\ (log # NoReturn /\ log.impl_ok) =>
       /\ log.after = log.before
       /\ log.pops = log.pushes

C10_Witness ==
  /\ Running /\ Depth = 2
  /\ cstack[1].overload = "source_info"
  /\ AtClosingBrace(Top) /\ Top.impl_ok
  /\ Top.overload = "extra_frame" /\ Top.body = "LazyInTupleCallBody"
  /\ Top.arg.kind = "source_info"
  /\ Top.pushes = 1 /\ Top.pops = 1
  /\ Top.entry # <<>> /\ estack = Top.entry

\* the last frame of a stack and the one beneath it
TopFrame(stack) == IF stack = <<>> THEN NoFrame ELSE stack[Len(stack)]
FrameBeneathTop(stack) ==
  IF Len(stack) < 2 THEN NoFrame ELSE stack[Len(stack) - 1]

\* activation k is a wrapper of the given overload
IsWrapper(k, overload) ==
  /\ k >= 1 /\ k <= Depth
  /\ cstack[k].kind = "wrapper" /\ cstack[k].overload = overload

\* C11: frames around the implementation. Every implementation's call that
\* runs under call__setup_stack was entered with the text frame of the owning
\* function's name on top of the frame stack, pushed by the wrapper before the
\* call; under the overload taking an extra frame the caller's frame lies
\* directly beneath it, and under the SourceInfo overload that frame is the
\* source-info frame. No wrapper pops while its callee runs, so the pops come
\* after the implementation returned; and when the implementation left the
\* stack as it found it, the function-name frame is popped first and the extra
\* frame second.
C11_FramesAroundImpl ==
  /\ \A k \in 1..Depth :
       cstack[k].kind = "impl" =>
         /\ IsWrapper(k - 1, "plain")
         /\ cstack[k - 1].pushes = 1 /\ cstack[k - 1].pops = 0
         /\ TopFrame(cstack[k].entry) = TextStackFrame(cstack[k].owner)
         /\ IsWrapper(k - 2, "extra_frame") =>
              /\ cstack[k - 2].pushes = 1 /\ cstack[k - 2].pops = 0
              /\ FrameBeneathTop(cstack[k].entry) = cstack[k - 2].arg
              /\ cstack[k - 2].arg # NoFrame
         /\ (IsWrapper(k - 2, "extra_frame") /\ IsWrapper(k - 3, "source_info")) =>
              FrameBeneathTop(cstack[k].entry) =
                SourceInfoStackFrame(cstack[k - 3].arg)
  /\ \A k \in 1..Depth :
       (cstack[k].kind = "wrapper" /\ cstack[k].pops > 0) =>
         k = Depth /\ AtClosingBrace(cstack[k])
  /\ (AtStatement("pop") /\ Top.impl_ok /\ Top.overload = "plain") =>
       /\ TopFrame(estack) = TextStackFrame(Top.owner)
       /\ IsWrapper(Depth - 1, "extra_frame") =>
            FrameBeneathTop(estack) = cstack[Depth - 1].arg
  /\ (AtStatement("pop") /\ Top.impl_ok /\ Top.overload = "extra_frame") =>
       estack = push(Top.entry, Top.arg)

C11_Witness ==
  /\ Running /\ Depth = 4
  /\ Top.kind = "impl" /\ Top.body = "LazyInTupleCallBody"
  /\ IsWrapper(1, "source_info")
  /\ estack = Top.entry
  /\ TopFrame(estack) = TextStackFrame("fnB")
  /\ FrameBeneathTop(estack) = [kind |-> "source_info", info |-> "node"]

----------------------------------------------------------------------------
(* Properties of LazyState *)

\* C13: the request list is reset at every entry. Right after
\* start_next_entry the list requested_inputs() is empty, whatever was
\* requested during the entries before and whether or not done was called.
C13_RequestsResetAtEntry ==
  last_op.name = "start_next_entry" => requested_inputs(state) = <<>>

C13_Witness ==
  /\ last_op.name = "start_next_entry"
  /\ last_op.dropped = 2
  /\ state.m_entry_count = Uint(2)
  /\ requested_inputs(state) = <<>>

\* C16: the user data pointer persists. user_data() returns the pointer the
\* LazyState was constructed with after any sequence of start_next_entry,
\* request_input and done.
C16_UserDataPersists ==
  /\ ctor_user_data \in Buffers
  /\ user_data(state) = ctor_user_data

C16_Witness ==
  /\ user_data(state) = "buf2"
  /\ ctor_user_data = "buf2"
  /\ is_done(state)
  /\ state.m_entry_count = Uint(2)
  /\ Len(requested_inputs(state)) = 1
  /\ last_op.name = "request_input"

----------------------------------------------------------------------------
(* Properties of the tuple-call convention *)

CallStatements == {"call_impl", "call_plain", "call_with_source"}

\* the call a wrapper makes has returned to it
PastCall(a) ==
  /\ a.kind = "wrapper"
  /\ \A i \in 1..Len(Program(a.body, a.overload)) :
       Program(a.body, a.overload)[i] \in CallStatements => a.ip > i

\* C12: outputs are initialized at return. Once the implementation's call has
\* returned to call__setup_stack, and from there to the other overloads, to
\* call__setup_execution_context and to their caller, every element of fn_out
\* is initialized, whether the caller passed it initialized or not.
C12_OutputsInitialized ==
  ((Running /\ PastCall(Top)) \/ log # NoReturn) => AllInitialized(fn_out)

C12_Witness ==
  /\ log # NoReturn
  /\ log.overload = "execution_context"
  /\ fn_out_entry = <<FALSE, TRUE>>
  /\ fn_out = <<TRUE, TRUE>>

----------------------------------------------------------------------------
(* Properties of a lazy call *)

\* C14: done once, no entry afterwards. In a lazy call done() is called at
\* most once; no start_next_entry and no call of the body follows it; and the
\* caller takes the call for finished exactly when is_done() has become true.
C14_DoneOnceNoReentry ==
  /\ done_signals <= 1
  /\ ~entered_after_done
  /\ is_done(state) => (done_signals = 1 /\ lpc \in {"in_call", "finished"})
  /\ lpc = "finished" => (is_done(state) /\ Depth = 0)
  /\ (done_signals = 1 /\ Depth = 0) => lpc \in {"in_call", "finished"}

C14_Witness ==
  /\ lpc = "finished"
  /\ is_done(state)
  /\ done_signals = 1
  /\ state.m_entry_count = Uint(2)
  /\ ~ENABLED CallerStartsEntry
  /\ ~ENABLED CallerCallsLazy

\* C15: always-required inputs at the first entry. When the implementation's
\* call starts and is_first_entry() is true, every input whose index is in
\* always_required() is initialized in fn_in.
C15_RequiredAtFirstEntry ==
  (InLazyImpl /\ Top.ip = 1 /\ is_first_entry(state)) =>
    \A index \in always_required : fn_in[Element(index)]

C15_Witness ==
  /\ InLazyImpl /\ Top.ip = 1
  /\ is_first_entry(state)
  /\ always_required = {1}
  /\ fn_in = <<FALSE, TRUE>>

----------------------------------------------------------------------------
(* Further properties of find_interface_sockets *)

\* the data sockets of all sockets of the nodes 2, 3, ... in a list of nodes
LaterNodeSockets(nodes) ==
  {lookup_socket(btree, graph, nodes[k], i) :
     k \in 2..Len(nodes), i \in 0..(MaxSockets - 1)}

\* C17: one node per kind. With several input nodes or several output nodes
\* in the tree, the sets hold the declared sockets of the first node that
\* nodes_with_idname returns for the kind, and no socket of a later node.
C17_OneNodePerKind ==
  SocketsFound =>
    LET in_nodes == nodes_with_idname(btree, "fn_FunctionInputNode")
        out_nodes == nodes_with_idname(btree, "fn_FunctionOutputNode")
    IN /\ in_nodes # <<>> => input_sockets = DeclaredSockets(in_nodes[1])
       /\ out_nodes # <<>> => output_sockets = DeclaredSockets(out_nodes[1])
       /\ Elems(input_sockets) \cap LaterNodeSockets(in_nodes) = {}
       /\ Elems(output_sockets) \cap LaterNodeSockets(out_nodes) = {}
       /\ Elems(input_sockets) \cap LaterNodeSockets(out_nodes) = {}
       /\ Elems(output_sockets) \cap LaterNodeSockets(in_nodes) = {}

C17_Witness ==
  /\ pc = "L52"
  /\ btree.in_nodes = <<3, 2>>
  /\ btree.out_nodes = <<2, 3>>
  /\ Len(input_sockets) = 2
  /\ Len(output_sockets) = 1

\* C18: a node without sockets. For an input or output node that has no
\* socket, the loop bound size() - 1 is taken for 0, so that
\* find_interface_sockets adds nothing for the node and reads no socket of it.
C18_ZeroSocketNodeAddsNothing ==
  /\ (SocketsFound /\ InputNode # NullNode /\ SocketCount(btree, InputNode) = 0) =>
       /\ ~UintLess(Uint(0), LoopBound(SocketCount(btree, InputNode)))
       /\ input_sockets = <<>>
       /\ fault.kind # "index_out_of_bounds"
  /\ (SocketsFound /\ OutputNode # NullNode /\ SocketCount(btree, OutputNode) = 0) =>
       /\ ~UintLess(Uint(0), LoopBound(SocketCount(btree, OutputNode)))
       /\ output_sockets = <<>>
       /\ fault.kind # "index_out_of_bounds"

----------------------------------------------------------------------------
(* Properties of nested calls *)

\* the frame a wrapper invocation pushes
OwnFrame(a) == IF a.overload = "plain" THEN TextStackFrame(a.owner) ELSE a.arg

\* the wrapper invocation has pushed its frame and not popped it yet
HoldsFrame(a) == a.kind = "wrapper" /\ a.pushes > a.pops

RECURSIVE FramesOfActive(_)
\* the frames held by the activations 1..k, oldest first
FramesOfActive(k) ==
  IF k = 0 THEN <<>>
  ELSE FramesOfActive(k - 1)
       \o (IF HoldsFrame(cstack[k]) THEN <<OwnFrame(cstack[k])>> ELSE <<>>)

RECURSIVE FramesHeld(_)
\* pushes minus pops over the activations 1..k
FramesHeld(k) ==
  IF k = 0 THEN 0
  ELSE FramesHeld(k - 1)
       + (IF cstack[k].kind = "wrapper" THEN cstack[k].pushes - cstack[k].pops
          ELSE 0)

\* C20: nested calls keep the frame stack LIFO. With implementations that
\* call call__setup_stack of other bodies on the same context, to any depth,
\* the frame stack is at every moment the stack the outermost call was entered
\* with followed by the frames of the wrapper invocations that are active and
\* have pushed, in call order; its depth is the depth before the outermost
\* call plus the number of those frames; and every pop removes the frame that
\* the same wrapper invocation pushed.
C20_NestedCallsAreLIFO ==
  /\ Running =>
       /\ estack = cstack[1].entry \o FramesOfActive(Depth)
       /\ Len(estack) = Len(cstack[1].entry) + FramesHeld(Depth)
  /\ AtStatement("pop") =>
       /\ Top.pushes = 1 /\ Top.pops = 0
       /\ TopFrame(estack) = OwnFrame(Top)
       /\ pop(estack) = Top.entry
  /\ \A k \in 1..Depth :
       cstack[k].kind = "wrapper" => cstack[k].pops <= cstack[k].pushes
  /\ log # NoReturn => log.after = log.before

C20_Witness ==
  /\ Running /\ Depth = 6
  /\ IsWrapper(1, "plain")
  /\ cstack[2].kind = "impl"
  /\ IsWrapper(3, "plain")
  /\ cstack[4].kind = "impl"
  /\ IsWrapper(5, "plain")
  /\ Top.kind = "impl"
  /\ Len(cstack[1].entry) = 1
  /\ Len(estack) = 4
  /\ estack[2] # estack[3]

----------------------------------------------------------------------------
(* LazyState over a long life, and around the wrappers *)

\* C21: is_first_entry() is true exactly when start_next_entry() has been
\* called exactly once, however many entries there have been: false before
\* the first entry and false during the second and every later one.
C21_FirstEntryIffCalledOnce ==
  is_first_entry(state) <=>
    (start_calls.wraps = 0 /\ start_calls.rest = Uint(1))

\* C22: is_done() is false on a new state, is true only once done() has been
\* called, and stays true after any later start_next_entry, request_input or
\* done; start_next_entry and request_input never change it.
C22_DoneIsSticky ==
  /\ is_done(state) <=> done_signals > 0
  /\ last_op.name = "LazyState" => ~is_done(state)

C22_Witness ==
  /\ is_done(state)
  /\ last_op.name = "request_input"
  /\ entered_after_done
  /\ state.m_entry_count = Uint(2)

\* C23: no step of a LazyInTupleCallBody::call__setup_stack wrapper changes
\* the LazyState, so the entry count, the requests and the done flag seen
\* after the wrapper returns are those the implementation's call left; and
\* the entry count advances only where the caller calls start_next_entry.
C23_WrappersLeaveLazyState ==
  [][ /\ (Running /\ Top.kind = "wrapper") => state' = state
      /\ (Depth = 0 /\ lpc = "in_call") => state' = state
      /\ state'.m_entry_count # state.m_entry_count =>
           (Depth = 0 /\ lpc = "enter" /\ state' = start_next_entry(state)) ]_vars

C23_Witness ==
  /\ lpc = "in_call"
  /\ Depth = 0
  /\ log # NoReturn
  /\ Len(estack) = 0
  /\ ~is_first_entry(state)
  /\ Len(requested_inputs(state)) = 1
  /\ ~is_done(state)

----------------------------------------------------------------------------
(* ui_node_remove_linked *)

\* ui_node_remove_linked has returned from a call with a node of the tree
RemovedLinked ==
  /\ uhist.op = "ui_node_remove_linked"
  /\ uhist.returned
  /\ uhist.rem_node # NullNodeId

\* the nodes input links lead to, from the nodes of a set
SourcesOf(nodes, ids) ==
  UNION {{nodes[k].inputs[j].link.fromnode : j \in DOMAIN nodes[k].inputs} :
           k \in {n \in DOMAIN nodes : nodes[n].id \in ids}} \ {NullNodeId}

RECURSIVE UpstreamWithin(_, _, _)
UpstreamWithin(nodes, ids, rounds) ==
  IF rounds = 0 THEN ids
  ELSE UpstreamWithin(nodes, ids \cup SourcesOf(nodes, ids), rounds - 1)

\* the node itself and every node it is fed by, directly or through others
Upstream(nodes, id) == UpstreamWithin(nodes, {id}, Len(nodes))

RemovedNodes == NodeIdsOf(uhist.orig) \ NodeIdsOf(ntree.nodes)

\* C24: a call of ui_node_remove_linked with a node of the tree always removes
\* that node, whatever the links are, also when the node lies on a cycle or
\* feeds other nodes.
C24_RemNodeIsRemoved ==
  RemovedLinked => uhist.rem_node \in RemovedNodes

\* C25: after ui_node_remove_linked every removed node is rem_node or a node
\* that feeds rem_node through input links, and no remaining node had an
\* input link from a removed node other than rem_node.
C25_RemovesOnlyUnusedUpstream ==
  RemovedLinked =>
    /\ RemovedNodes \subseteq Upstream(uhist.orig, uhist.rem_node)
    /\ \A k \in DOMAIN uhist.orig :
         uhist.orig[k].id \notin RemovedNodes =>
           \A j \in DOMAIN uhist.orig[k].inputs :
             LET source == uhist.orig[k].inputs[j].link.fromnode
             IN source \in RemovedNodes => source = uhist.rem_node

C25_Witness ==
  /\ RemovedLinked
  /\ uhist.rem_node = 1
  /\ RemovedNodes = {1, 2}
  /\ \E j \in DOMAIN uhist.orig[1].inputs :
       uhist.orig[1].inputs[j].link.fromnode = 2
  /\ \E k \in DOMAIN uhist.orig[3].inputs :
       uhist.orig[3].inputs[k].link.fromnode = 1

\* the links of a tree
LinkCount(nodes) ==
  Cardinality(UNION {{<<k, j>> : j \in {i \in DOMAIN nodes[k].inputs :
                                           nodes[k].inputs[i].link # NoLink}} :
                      k \in DOMAIN nodes})

\* C26: ui_node_tag_recursive and ui_node_clear_recursive come to an end on
\* every tree, cycles included: in the tagging pass and in the clearing pass
\* the flag of a node changes at most once, so the recursion descends from a
\* node at most once, the number of calls is bounded by the number of links,
\* and the call stack never holds a node twice.
C26_RecursionsTerminate ==
  uhist.op = "ui_node_remove_linked" =>
    /\ \A id \in DOMAIN uhist.tagged :
         uhist.tagged[id] <= 1 /\ uhist.cleared[id] <= 1
    /\ uhist.tag_calls <= 1 + LinkCount(uhist.orig)
    /\ uhist.clear_calls <= 2 * LinkCount(uhist.orig)
    /\ UDepth <= Len(uhist.orig) + 2
    /\ \A a, b \in 1..UDepth :
         (a < b /\ ustack[a].pc = "loop" /\ ustack[b].pc = "loop") =>
           ustack[a].node # ustack[b].node
    /\ (UDepth > 0) = ~uhist.returned

C26_Witness ==
  /\ RemovedLinked
  /\ uhist.tag_calls = 3
  /\ uhist.clear_calls = 3
  /\ uhist.tagged[1] = 1 /\ uhist.tagged[2] = 1
  /\ uhist.cleared[2] = 1
  /\ \E j \in DOMAIN uhist.orig[1].inputs : uhist.orig[1].inputs[j].link.fromnode = 2
  /\ \E j \in DOMAIN uhist.orig[2].inputs : uhist.orig[2].inputs[j].link.fromnode = 1

----------------------------------------------------------------------------
(* uiTemplateNodeView *)

\* C27: uiTemplateNodeView comes to an end on every tree, cyclic input links
\* included: no node is descended into while one of its inputs is being
\* drawn, the drawing never runs out of its label, and when the view returns
\* every NODE_TEST flag that was set has been cleared.
C27_NodeViewTerminates ==
  uhist.op = "uiTemplateNodeView" =>
    /\ fault = NoFault
    /\ \A a, b \in 1..UDepth :
         (a < b /\ ustack[a].fn = "ui_node_draw_input"
                /\ ustack[b].fn = "ui_node_draw_input") =>
           ustack[a].node # ustack[b].node
    /\ uhist.returned => \A id \in DOMAIN nflag : ~nflag[id]

----------------------------------------------------------------------------
(* ui_node_link *)

\* the node that was linked to the target socket when the button was pressed
PreviousNode == NodeOf(uhist.before, uarg.node).inputs[uarg.sock].link.fromnode

\* the button asks for a node of the type of the node linked to the target
\* socket and, if that is a group node, for its group
AsksForPreviousType ==
  /\ uarg.op = "ui_node_link"
  /\ uarg.arg.event = UI_NODE_LINK_ADD
  /\ PreviousNode # NullNodeId
  /\ NodeOf(uhist.before, PreviousNode).type = TemplateType(uarg.arg)
  /\ TemplateType(uarg.arg) = NODE_GROUP =>
       NodeOf(uhist.before, PreviousNode).group = uarg.arg.ngroup

\* C28: when ui_node_link adds and the node linked to the target socket has
\* the requested type already (and, if it is a group node, the requested
\* group), that node is kept: no node is added or removed, and afterwards the
\* target socket is linked to output arg->output of that same node, also when
\* another node of the requested type exists in the tree.
C28_SameTypeKeepsNode ==
  (AsksForPreviousType /\ uhist.returned) =>
    /\ NodeIdsOf(ntree.nodes) = NodeIdsOf(uhist.before)
    /\ NodeOf(ntree.nodes, uarg.node).inputs[uarg.sock].link =
         [fromnode |-> PreviousNode, fromsock |-> uarg.arg.output]

====
